---- MODULE Spec2Model ----
(***************************************************************************)
(* Model of the chess retrograde-analysis repository:                      *)
(*   - ChessBFS.generate_move_tree      (src/src/chess_bfs.py)             *)
(*   - ChessTreeStorage                 (src/src/persistent_storage.py)    *)
(*   - RetrogradeAnalyzer               (src/src/retrograde_analysis.py)   *)
(*   - AnalysisWorker, ChessApp         (src/src/gui_app.py)               *)
(* The rule engine (python-chess) is an external capability; it is         *)
(* modelled by a small catalogue of finite game graphs.  A position is     *)
(* identified by its FEN; a FEN carries the move counters, so every        *)
(* position sits at exactly one ply and the graphs are layered.            *)
(***************************************************************************)
EXTENDS Integers, Sequences, FiniteSets, TLC

(***************************************************************************)
(* Bounds of the exploration.                                              *)
(***************************************************************************)
MaxDepth == 3

MaxRuns == 2

MaxSaveInterval == 2

MaxCheckpoints == 1

MaxKills == 1

MaxSaveIntervalNodes == 1

MaxAfter == 2

(***************************************************************************)
(* The rule oracle.  legal[b] is board.legal_moves in generation order;    *)
(* every entry carries the move (sq, promotion), the board it leads to     *)
(* and whether CheckmateDetector.matches_conditions accepts it.            *)
(* mate / stale are is_checkmate / is_stalemate; other holds the boards    *)
(* on which is_game_over is true for another reason (insufficient          *)
(* material, 75 moves): such boards still have legal moves.  roots are the *)
(* starting positions (one of GraphB is a stalemate: a run from it stores  *)
(* a marker and no position) and options the (limit_promotions,            *)
(* use_checkmate_filter) settings explored on the graph.                   *)
(***************************************************************************)
Mv(sq, promotion, to, check) ==
    [sq |-> sq, promotion |-> promotion, to |-> to, check |-> check]

GraphA ==
    [ legal |-> <<
        << Mv("a", "", 1, FALSE), Mv("b", "", 2, TRUE), Mv("c", "", 3, TRUE) >>,
        << Mv("a", "", 4, FALSE), Mv("b", "", 5, TRUE) >>,
        << Mv("a", "", 5, TRUE), Mv("b", "", 6, TRUE) >>,
        << >>,
        << Mv("a", "", 7, FALSE) >>,
        << Mv("a", "", 8, TRUE) >>,
        << >>,
        << >>,
        << >> >>,
      mate  |-> {3, 6, 8},
      stale |-> {7},
      other |-> {4},
      roots |-> {0, 1},
      options |-> { << TRUE, FALSE >> } ]

GraphB ==
    [ legal |-> <<
        << Mv("a", "q", 1, TRUE), Mv("a", "r", 2, TRUE), Mv("a", "n", 3, FALSE),
           Mv("a", "b", 4, FALSE), Mv("b", "", 5, FALSE) >>,
        << Mv("a", "", 6, TRUE) >>,
        << Mv("a", "", 6, TRUE) >>,
        << >>,
        << Mv("a", "", 7, FALSE) >>,
        << Mv("a", "", 6, TRUE), Mv("b", "", 7, FALSE) >>,
        << >>,
        << Mv("a", "", 8, FALSE) >>,
        << >> >>,
      mate  |-> {6},
      stale |-> {3, 8},
      other |-> {},
      roots |-> {0, 3},
      options |-> { << TRUE, FALSE >>, << FALSE, FALSE >>, << TRUE, TRUE >> } ]

\* the rules of GraphA with the legal moves generated in the opposite order
Reversed(s) == [ i \in DOMAIN s |-> s[Len(s) + 1 - i] ]

GraphC ==
    [ legal |-> [ b \in DOMAIN GraphA.legal |-> Reversed(GraphA.legal[b]) ],
      mate  |-> GraphA.mate,
      stale |-> GraphA.stale,
      other |-> GraphA.other,
      roots |-> {0},
      options |-> GraphA.options ]

\* rules where positions are reached by move sequences of different lengths
GraphD ==
    [ legal |-> <<
        << Mv("a", "", 1, FALSE), Mv("b", "", 2, TRUE) >>,
        << Mv("a", "", 2, TRUE), Mv("b", "", 3, FALSE) >>,
        << Mv("a", "", 4, TRUE) >>,
        << Mv("a", "", 4, TRUE), Mv("b", "", 5, TRUE) >>,
        << >>,
        << >> >>,
      mate  |-> {4, 5},
      stale |-> {},
      other |-> {},
      roots |-> {0},
      options |-> { << TRUE, FALSE >> } ]

Catalogue == << GraphA, GraphB, GraphC, GraphD >>

Oracles == DOMAIN Catalogue

\* the oracle with the same rules and the other generation order
Twin(o) == CASE o = 1 -> 3 [] o = 3 -> 1 [] OTHER -> o

\* board.legal_moves (boards are numbered from 0, tuples from 1)
LegalMoves(o, board) == Catalogue[o].legal[board + 1]

IsCheckmate(o, board) == board \in Catalogue[o].mate

IsStalemate(o, board) == board \in Catalogue[o].stale

IsGameOver(o, board) ==
    board \in (Catalogue[o].mate \cup Catalogue[o].stale \cup Catalogue[o].other)

\* board.fen(): the canonical identity of a board
Fen(board) == board

\* chess.Board(fen)
BoardOf(fen) == fen

\* the chess.Move of a legal-move entry
Move(e) == [sq |-> e.sq, promotion |-> e.promotion]

\* board.push(move) on a copy: the board reached by a legal move
Push(o, board, m) ==
    LET es == { i \in DOMAIN LegalMoves(o, board) : Move(LegalMoves(o, board)[i]) = m }
    IN  LegalMoves(o, board)[CHOOSE i \in es : TRUE].to

Boards(o) == 0 .. (Len(Catalogue[o].legal) - 1)

(***************************************************************************)
(* Trees.  A tree is a Python dict: a sequence of records in insertion     *)
(* order, at most one record per fen.                                      *)
(***************************************************************************)
InTree(tree, key) == \E i \in DOMAIN tree : tree[i].fen = key

Lookup(tree, key) == tree[CHOOSE i \in DOMAIN tree : tree[i].fen = key]

Keys(tree) == { tree[i].fen : i \in DOMAIN tree }

Range(s) == { s[i] : i \in DOMAIN s }

\* the PositionSet of a tree: identity, depth and terminal flags
PositionSet(tree) ==
    { [fen |-> tree[i].fen, depth |-> tree[i].depth,
       is_checkmate |-> tree[i].is_checkmate,
       is_stalemate |-> tree[i].is_stalemate] : i \in DOMAIN tree }

(***************************************************************************)
(* ChessTreeStorage: the two tables of the SQLite database.                *)
(***************************************************************************)
\* str(move) and chess.Move.from_uci
Uci(m) == << m.sq, m.promotion >>

FromUci(u) == [sq |-> u[1], promotion |-> u[2]]

BoolToInt(b) == IF b THEN 1 ELSE 0

IntToBool(n) == n # 0

\* a row whose stalemate column is written from the checkmate flag
RowOfMateTwice(data) ==
    [ fen |-> data.fen, depth |-> data.depth,
      move_history |-> [ i \in DOMAIN data.moves |-> Uci(data.moves[i]) ],
      is_checkmate |-> BoolToInt(data.is_checkmate),
      is_stalemate |-> BoolToInt(data.is_checkmate),
      board_state |-> Fen(data.board) ]

\* the row written for one tree record
RowOf(data) ==
    [ fen |-> data.fen, depth |-> data.depth,
      move_history |-> [ i \in DOMAIN data.moves |-> Uci(data.moves[i]) ],
      is_checkmate |-> BoolToInt(data.is_checkmate),
      is_stalemate |-> BoolToInt(data.is_stalemate),
      board_state |-> Fen(data.board) ]

\* the tree record rebuilt from one row
DataOf(row) ==
    [ fen |-> row.fen, depth |-> row.depth,
      moves |-> [ i \in DOMAIN row.move_history |-> FromUci(row.move_history[i]) ],
      is_checkmate |-> IntToBool(row.is_checkmate),
      is_stalemate |-> IntToBool(row.is_stalemate),
      board |-> BoardOf(row.board_state) ]

\* INSERT OR IGNORE of one row: an existing row of the key is kept
InsertOrIgnore(rows, row) ==
    IF \E i \in DOMAIN rows : rows[i].fen = row.fen THEN rows ELSE Append(rows, row)

\* INSERT OR REPLACE of one row: an existing row of the key is deleted,
\* the new row gets a fresh rowid (it goes last)
InsertOrReplace(rows, row) ==
    Append(SelectSeq(rows, LAMBDA r : r.fen # row.fen), row)

RECURSIVE InsertAll(_, _, _)
InsertAll(rows, tree, i) ==
    IF i > Len(tree) THEN rows
    ELSE InsertAll(InsertOrReplace(rows, RowOf(tree[i])), tree, i + 1)

Marker(starting_fen, current_depth, max_depth, positions_analyzed) ==
    [ starting_fen |-> starting_fen, current_depth |-> current_depth,
      max_depth |-> max_depth, positions_analyzed |-> positions_analyzed ]

\* save_tree: all rows and one new progress row, one commit
SaveTree(db, tree, starting_fen, current_depth, max_depth, positions_analyzed) ==
    [ positions |-> InsertAll(db.positions, tree, 1),
      progress  |-> Append(db.progress,
                      Marker(starting_fen, current_depth, max_depth, positions_analyzed)) ]

\* load_progress: the newest progress row, or none
NoProgress == [ starting_fen |-> -1, current_depth |-> -1,
                max_depth |-> -1, positions_analyzed |-> -1 ]

\* a read of the oldest progress row
LoadProgressOldest(db) ==
    IF db.progress = << >> THEN NoProgress ELSE db.progress[1]

LoadProgress(db) ==
    IF db.progress = << >> THEN NoProgress ELSE db.progress[Len(db.progress)]

\* load_tree: (None, None) without a progress row, else (tree, progress)
LoadTree(db) ==
    IF db.progress = << >>
    THEN [ tree |-> << >>, progress |-> NoProgress, none |-> TRUE ]
    ELSE [ tree |-> [ i \in DOMAIN db.positions |-> DataOf(db.positions[i]) ],
           progress |-> LoadProgress(db), none |-> FALSE ]

\* a clear that deletes the positions only
ClearPositionsOnly(db) == [ positions |-> << >>, progress |-> db.progress ]

\* a clear that deletes the progress rows only
ClearProgressOnly(db) == [ positions |-> db.positions, progress |-> << >> ]

\* clear
Clear(db) == [ positions |-> << >>, progress |-> << >> ]

EmptyDb == [ positions |-> << >>, progress |-> << >> ]

\* what the database file holds after cursor.execute in autocommit mode
AfterExecuteAutocommit(committed, txn) == txn

\* what the database file holds after a cursor.execute of save_tree: the
\* connection (line 17) opens a transaction before the first INSERT, and the
\* file keeps the committed content until conn.commit()
AfterExecute(committed, txn) == committed

\* the client of the store: the last writing call that returned (save or
\* clear) with its arguments, whether the store was empty before it, the
\* number of saves so far, and what load_tree and load_progress returned if
\* called since; for the last save_tree call: where it is (rows, progress,
\* commit), its arguments and the committed content it started from
\* (pending), the next record to write (i) and the content its open
\* transaction sees (txn); failed tells that this call raised or died
\* before its commit
NoStore ==
    [ last |-> "none", tree |-> << >>, marker |-> NoProgress,
      on_empty |-> FALSE, saves |-> 0, read |-> FALSE,
      loaded |-> [ tree |-> << >>, progress |-> NoProgress, none |-> TRUE ],
      progress |-> NoProgress,
      at |-> "idle", i |-> 1,
      pending |-> [ tree |-> << >>, marker |-> NoProgress, on_empty |-> FALSE,
                    before |-> EmptyDb ],
      txn |-> EmptyDb, failed |-> FALSE ]

(***************************************************************************)
(* ChessBFS.generate_move_tree.                                            *)
(***************************************************************************)
VARIABLES
    env,    \* the oracle and the options limit_promotions, use_checkmate_filter
            \* and save_interval the callers pass
    db,     \* the committed content of the SQLite database
    pc,     \* where the exploring process is: idle, expand, final, done
    run,    \* the locals of generate_move_tree and the ChessBFS instance
    hist,   \* the runs started so far: root, target depth, resume, outcome
    worker  \* the AnalysisWorker of the GUI: its is_running flag, and the
            \* move expansions made since stop() cleared the flag; with it
            \* the thread's arguments and position in run(), the result
            \* queue and the Start and Stop controls of ChessApp

bfsVars == << env, db, pc, run, hist, worker >>

VARIABLES
    an,     \* the fields of the RetrogradeAnalyzer object
    dec,    \* the locals of decrement_from_checkmates
    rpc,    \* where analyze() is
    obs,    \* observation of the current pass: parent loops run per position,
            \* decrements per (child, parent) edge, number of analyze() calls
    res     \* the dictionary the last analyze() returned (step 6 entries)

raVars == << an, dec, rpc, obs, res >>

VARIABLES
    simple, \* the locals of generate_move_tree_simple
    st      \* what a direct client of ChessTreeStorage last passed and got back

vars == << env, db, pc, run, hist, worker, an, dec, rpc, obs, res, simple, st >>

NoRun ==
    [ starting_fen |-> -1, max_depth |-> 0,
      positions_analyzed |-> 0, tree |-> << >>, current_level |-> << >>,
      next_level |-> << >>, current_depth |-> 0, li |-> 1, mi |-> 1,
      calls |-> 0, unsaved |-> 0 ]

\* AnalysisWorker.__init__ (line 37); after counts the move expansions made
\* by the exploration that was running when stop() was called (stopped_in).
\* ChessApp.__init__ (lines 341-348, 427-431): no worker thread (at is
\* "none"), empty result queue, Start enabled, Stop disabled; started and
\* finished count the threads started and the analysis_finished calls, put
\* the items the current thread has put on the result queue
NewWorker ==
    [ is_running |-> TRUE, after |-> 0, stopped_in |-> 0,
      at |-> "none", starting_fen |-> -1, target_depth |-> 0, resume |-> TRUE,
      put |-> 0, result_queue |-> << >>, btn_start |-> TRUE, btn_stop |-> FALSE,
      started |-> 0, finished |-> 0 ]

\* a pruning that lets every promotion through
PrunedByFilterOnly(e, v) == v.use_checkmate_filter /\ ~e.check

\* the moves skipped before expansion (lines 125-131)
Pruned(e, v) ==
    \/ v.limit_promotions /\ e.promotion \in {"b", "r"}
    \/ v.use_checkmate_filter /\ ~e.check

\* the next (frontier entry, legal move) pair at or after (li, mi)
RECURSIVE NextSlot(_, _, _, _)
NextSlot(o, level, li, mi) ==
    IF li > Len(level) THEN << li, 1 >>
    ELSE IF mi <= Len(LegalMoves(o, level[li].board)) THEN << li, mi >>
    ELSE NextSlot(o, level, li + 1, 1)

AtSlot(r, v, li, mi) ==
    LET s == NextSlot(v.o, r.current_level, li, mi)
    IN  [ r EXCEPT !.li = s[1], !.mi = s[2] ]

\* a record that keeps the move sequence of the parent
NewRecordParentMoves(o, new_board, current_depth, new_history) ==
    [ fen |-> Fen(new_board), depth |-> current_depth,
      moves |-> SubSeq(new_history, 1, Len(new_history) - 1),
      is_checkmate |-> IsCheckmate(o, new_board),
      is_stalemate |-> IsStalemate(o, new_board),
      board |-> new_board ]

\* the record of a newly reached board (lines 145-151)
NewRecord(o, new_board, current_depth, new_history) ==
    [ fen |-> Fen(new_board), depth |-> current_depth, moves |-> new_history,
      is_checkmate |-> IsCheckmate(o, new_board),
      is_stalemate |-> IsStalemate(o, new_board),
      board |-> new_board ]

\* an iteration that writes the record and the frontier entry whether or not
\* the identity is in the tree
ExpandMoveOverwrite(r, v, board, move_history, e) ==
    LET new_board    == Push(v.o, board, Move(e))
        new_history  == Append(move_history, Move(e))
        position_key == Fen(new_board)
        record       == [ fen |-> position_key, depth |-> r.current_depth,
                          moves |-> new_history,
                          is_checkmate |-> IsCheckmate(v.o, new_board),
                          is_stalemate |-> IsStalemate(v.o, new_board),
                          board |-> new_board ]
    IN  [ r EXCEPT
            !.positions_analyzed = @ + 1,
            !.unsaved = @ + 1,
            !.tree = IF InTree(@, position_key)
                     THEN [ i \in DOMAIN @ |->
                              IF @[i].fen = position_key THEN record ELSE @[i] ]
                     ELSE Append(@, record),
            !.next_level = IF ~IsGameOver(v.o, new_board)
                           THEN Append(@, [ board |-> new_board, moves |-> new_history ])
                           ELSE @ ]

\* one iteration of the inner loop for a move that is not pruned (lines
\* 133-155); unsaved counts the moves analyzed since the last save_tree call
ExpandMove(r, v, board, move_history, e) ==
    LET new_board    == Push(v.o, board, Move(e))
        new_history  == Append(move_history, Move(e))
        position_key == Fen(new_board)
        seen         == InTree(r.tree, position_key)
    IN  [ r EXCEPT
            !.positions_analyzed = @ + 1,
            !.unsaved = @ + 1,
            !.tree = IF seen THEN @
                     ELSE Append(@, NewRecord(v.o, new_board, r.current_depth, new_history)),
            !.next_level = IF ~seen /\ ~IsGameOver(v.o, new_board)
                           THEN Append(@, [ board |-> new_board, moves |-> new_history ])
                           ELSE @ ]

\* the frontier a resumed run starts from (lines 103-107)
ResumeLevel(tree, start_depth) ==
    LET keep(data) == data.depth = start_depth - 1
                      /\ ~data.is_checkmate /\ ~data.is_stalemate
        kept == SelectSeq(tree, keep)
    IN  [ i \in DOMAIN kept |-> [ board |-> kept[i].board, moves |-> kept[i].moves ] ]

\* an early return that comes one depth late
NothingToDoLate(start_depth, max_depth) == start_depth > max_depth + 1

\* the early return (line 89)
NothingToDo(start_depth, max_depth) == start_depth > max_depth

\* lines 71-108: the locals after the resume decision and the first frontier
Begin(v, d, starting_fen, max_depth, resume) ==
    LET loaded  == LoadTree(d)
        usable  == resume /\ ~loaded.none /\ loaded.tree # << >>
        same    == usable /\ loaded.progress.starting_fen = starting_fen
        start_depth == IF same THEN loaded.progress.current_depth + 1 ELSE 1
        tree    == IF same THEN loaded.tree ELSE << >>
        level   == IF start_depth = 1
                   THEN << [ board |-> BoardOf(starting_fen), moves |-> << >> ] >>
                   ELSE ResumeLevel(tree, start_depth)
        r0      == [ starting_fen |-> starting_fen, max_depth |-> max_depth,
                     positions_analyzed |->
                         IF same THEN loaded.progress.positions_analyzed ELSE 0,
                     tree |-> tree, current_level |-> level, next_level |-> << >>,
                     current_depth |-> start_depth, li |-> 1, mi |-> 1,
                     calls |-> 0, unsaved |-> 0 ]
    IN  [ cleared |-> usable /\ ~same,
          noop    |-> NothingToDo(start_depth, max_depth),
          r       |-> IF NothingToDo(start_depth, max_depth)
                      THEN [ r0 EXCEPT !.current_level = << >> ]
                      ELSE AtSlot(r0, v, 1, 1) ]

\* one pass of the inner loop body (lines 123-155), checkpoint excluded;
\* calls counts the moves board.legal_moves has yielded and the pushes
ExpandStep(r, v) ==
    LET entry == r.current_level[r.li]
        e     == LegalMoves(v.o, entry.board)[r.mi]
        r1    == IF Pruned(e, v) THEN [ r EXCEPT !.calls = @ + 1 ]
                 ELSE [ ExpandMove(r, v, entry.board, entry.moves, e)
                          EXCEPT !.calls = @ + 2 ]
    IN  AtSlot(r1, v, r.li, r.mi + 1)

\* a loop that leaves the last depth out
LoopEndsEarly(r) == r.next_level = << >> \/ r.current_depth + 1 >= r.max_depth

\* lines 168-187 without the save: next frontier, loop exit
LoopEnds(r) == r.next_level = << >> \/ r.current_depth = r.max_depth

DepthSaveDue(r, v) == r.current_depth % v.save_interval = 0

EndDepthStep(r, v) ==
    LET unsaved == IF DepthSaveDue(r, v) THEN 0 ELSE r.unsaved
    IN  IF LoopEnds(r)
        THEN [ r EXCEPT !.current_level = r.next_level, !.unsaved = unsaved ]
        ELSE AtSlot([ r EXCEPT !.current_level = r.next_level,
                               !.next_level = << >>, !.current_depth = @ + 1,
                               !.unsaved = unsaved ], v, 1, 1)

(***************************************************************************)
(* The exploring process, one action per step of generate_move_tree.       *)
(***************************************************************************)
\* the oracle and the options of the callers
EnvInit ==
    /\ env \in [ o : Oracles, limit_promotions : BOOLEAN,
                 use_checkmate_filter : BOOLEAN,
                 save_interval : 1 .. MaxSaveInterval,
                 save_interval_nodes : 1 .. MaxSaveIntervalNodes ]
    /\ << env.limit_promotions, env.use_checkmate_filter >> \in Catalogue[env.o].options

BfsInit ==
    /\ EnvInit
    /\ db = EmptyDb
    /\ pc = "idle"
    /\ run = NoRun
    /\ hist = << >>
    /\ worker = NewWorker

RECURSIVE Checkpoints(_)
Checkpoints(h) ==
    IF h = << >> THEN 0 ELSE h[Len(h)].checkpoints + Checkpoints(SubSeq(h, 1, Len(h) - 1))

Kills(h) == Cardinality({ i \in DOMAIN h : h[i].outcome = "killed" })

SetOutcome(h, outcome) == [ h EXCEPT ![Len(h)].outcome = outcome ]

\* ChessBFS(starting_fen).generate_move_tree(max_depth, resume, save_interval)
\* up to the first pass of the loop (lines 51-108)
Start(starting_fen, max_depth, resume) ==
    /\ pc \in {"idle", "done"}
    /\ Len(hist) < MaxRuns
    /\ LET b == Begin(env, db, starting_fen, max_depth, resume)
       IN  /\ run' = b.r
           /\ db' = IF b.cleared THEN Clear(db) ELSE db
           /\ pc' = IF b.noop THEN "done" ELSE "expand"
           /\ hist' = Append(hist,
                        [ root |-> starting_fen, depth |-> max_depth,
                          resume |-> resume, empty |-> (db = EmptyDb),
                          cleared |-> b.cleared, before |-> db,
                          noop |-> b.noop, checkpoints |-> 0,
                          outcome |-> IF b.noop THEN "done" ELSE "running" ])
    /\ UNCHANGED << env, worker, raVars, simple, st >>

\* one legal move of one frontier position (lines 123-166); `elapsed` tells
\* whether two hours have passed since the last time-based checkpoint
Expand(elapsed) ==
    /\ pc = "expand"
    /\ run.li <= Len(run.current_level)
    /\ elapsed => Checkpoints(hist) < MaxCheckpoints
    /\ LET e  == LegalMoves(env.o, run.current_level[run.li].board)[run.mi]
           r1 == ExpandStep(run, env)
       IN  /\ run' = IF ~Pruned(e, env) /\ elapsed
                     THEN [ r1 EXCEPT !.unsaved = 0 ] ELSE r1
           /\ db' = IF ~Pruned(e, env) /\ elapsed
                    THEN SaveTree(db, r1.tree, run.starting_fen, run.current_depth,
                                  run.max_depth, r1.positions_analyzed)
                    ELSE db
           /\ hist' = IF ~Pruned(e, env) /\ elapsed
                      THEN [ hist EXCEPT ![Len(hist)].checkpoints = @ + 1 ]
                      ELSE hist
           /\ worker' = IF ~Pruned(e, env) /\ ~worker.is_running
                           /\ worker.stopped_in = Len(hist) /\ worker.after < MaxAfter
                        THEN [ worker EXCEPT !.after = @ + 1 ] ELSE worker
    /\ UNCHANGED << env, pc, raVars, simple, st >>

\* the end of one depth (lines 168-187)
EndDepth ==
    /\ pc = "expand"
    /\ run.li > Len(run.current_level)
    /\ db' = IF DepthSaveDue(run, env)
             THEN SaveTree(db, run.tree, run.starting_fen, run.current_depth,
                           run.max_depth, run.positions_analyzed)
             ELSE db
    /\ run' = EndDepthStep(run, env)
    /\ pc' = IF LoopEnds(run) THEN "final" ELSE "expand"
    /\ UNCHANGED << env, hist, worker, raVars, simple, st >>

\* a final marker that records the depth the loop reached
FinalDepthReached(r) == r.current_depth

\* the current_depth of the final marker (line 190 passes max_depth)
FinalDepth(r) == r.max_depth

\* the final save and the return (lines 189-204)
FinalSave ==
    /\ pc = "final"
    /\ db' = SaveTree(db, run.tree, run.starting_fen, FinalDepth(run),
                      run.max_depth, run.positions_analyzed)
    /\ pc' = "done"
    /\ hist' = SetOutcome(hist, "done")
    /\ UNCHANGED << env, run, worker, raVars, simple, st >>

\* the process is killed; only the committed database survives
Kill ==
    /\ pc \in {"expand", "final"}
    /\ Kills(hist) < MaxKills
    /\ pc' = "idle"
    /\ run' = NoRun
    /\ hist' = SetOutcome(hist, "killed")
    /\ UNCHANGED << env, db, worker, raVars, simple, st >>

\* AnalysisWorker.stop(), called by the GUI thread while an exploration runs
Stop ==
    /\ pc \in {"expand", "final"}
    /\ worker.is_running
    /\ worker' = [ worker EXCEPT !.is_running = FALSE, !.stopped_in = Len(hist) ]
    /\ UNCHANGED << env, db, pc, run, hist, raVars, simple, st >>

BfsNext ==
    \/ \E starting_fen \in Catalogue[env.o].roots, max_depth \in 0 .. MaxDepth,
          resume \in BOOLEAN :
            Start(starting_fen, max_depth, resume)
    \/ \E elapsed \in BOOLEAN : Expand(elapsed)
    \/ EndDepth
    \/ FinalSave
    \/ Kill

(***************************************************************************)
(* The uninterrupted run from an empty store, computed with the same       *)
(* steps: the tree generate_move_tree returns.                             *)
(***************************************************************************)
RECURSIVE Complete(_, _)
Complete(r, v) ==
    IF r.li <= Len(r.current_level) THEN Complete(ExpandStep(r, v), v)
    ELSE IF LoopEnds(r) THEN r.tree
    ELSE Complete(EndDepthStep(r, v), v)

\* the tree returned after the resume decision b
FinishRun(b, v) == IF b.noop THEN b.r.tree ELSE Complete(b.r, v)

DirectRun(v, starting_fen, max_depth) ==
    FinishRun(Begin(v, EmptyDb, starting_fen, max_depth, FALSE), v)

\* positions_analyzed when that run returns
RECURSIVE CompleteCount(_, _)
CompleteCount(r, v) ==
    IF r.li <= Len(r.current_level) THEN CompleteCount(ExpandStep(r, v), v)
    ELSE IF LoopEnds(r) THEN r.positions_analyzed
    ELSE CompleteCount(EndDepthStep(r, v), v)

FinishCount(b, v) == IF b.noop THEN 0 ELSE CompleteCount(b.r, v)

DirectCount(v, starting_fen, max_depth) ==
    FinishCount(Begin(v, EmptyDb, starting_fen, max_depth, FALSE), v)

(***************************************************************************)
(* Sequences of whole calls: generate_move_tree from its first line to its *)
(* return as one step, no kill and no two hours elapsing, so that three    *)
(* calls in a row stay within reach.                                       *)
(***************************************************************************)
MaxWholeRuns == 3

\* the per-depth save (lines 181-182)
DepthSave(d, r, v) ==
    IF DepthSaveDue(r, v)
    THEN SaveTree(d, r.tree, r.starting_fen, r.current_depth, r.max_depth,
                  r.positions_analyzed)
    ELSE d

\* lines 111-190 from the locals r and the store d: the locals and the store
\* at the return
RECURSIVE RunAll(_, _, _)
RunAll(r, v, d) ==
    IF r.li <= Len(r.current_level) THEN RunAll(ExpandStep(r, v), v, d)
    ELSE IF LoopEnds(r)
         THEN [ r  |-> EndDepthStep(r, v),
                db |-> SaveTree(DepthSave(d, r, v), r.tree, r.starting_fen,
                                FinalDepth(r), r.max_depth, r.positions_analyzed) ]
         ELSE RunAll(EndDepthStep(r, v), v, DepthSave(d, r, v))

\* the locals and the store at the return of a call whose resume decision on
\* the store d was b
WholeOutcome(b, v, d) ==
    IF b.noop
    THEN [ r |-> b.r, db |-> IF b.cleared THEN Clear(d) ELSE d ]
    ELSE RunAll(b.r, v, IF b.cleared THEN Clear(d) ELSE d)

\* ChessBFS(starting_fen).generate_move_tree(max_depth, resume, save_interval)
WholeRun(starting_fen, max_depth, resume) ==
    /\ pc \in {"idle", "done"}
    /\ Len(hist) < MaxWholeRuns
    /\ \E b \in { Begin(env, db, starting_fen, max_depth, resume) } :
         \E out \in { WholeOutcome(b, env, db) } :
            /\ run' = out.r
            /\ db' = out.db
            /\ hist' = Append(hist,
                         [ root |-> starting_fen, depth |-> max_depth,
                           resume |-> resume, empty |-> (db = EmptyDb),
                           cleared |-> b.cleared, before |-> db,
                           noop |-> b.noop, checkpoints |-> 0,
                           outcome |-> "done" ])
    /\ pc' = "done"
    /\ UNCHANGED << env, worker, raVars, simple, st >>

RunsNext ==
    \E starting_fen \in Catalogue[env.o].roots, max_depth \in 0 .. MaxDepth,
       resume \in BOOLEAN :
         WholeRun(starting_fen, max_depth, resume)

(***************************************************************************)
(* The GUI: ChessApp starts one AnalysisWorker thread per analysis and     *)
(* polls its queues; the Stop button calls AnalysisWorker.stop().          *)
(***************************************************************************)
MaxWorkers == 2

\* the parameters of generate_move_tree (chess_bfs.py line 34)
GenerateMoveTreeParameters ==
    { "max_depth", "resume", "save_interval", "db_path", "use_checkmate_filter",
      "limit_promotions", "save_interval_nodes", "logger" }

\* the keyword arguments of the call in AnalysisWorker.run (line 68)
WorkerCallKeywords == { "max_depth", "resume", "save_interval", "use_conditions" }

\* a call with a keyword the function does not take raises TypeError
CallRaises == ~(WorkerCallKeywords \subseteq GenerateMoveTreeParameters)

\* ChessApp.start_analysis (lines 521-546): the controls, the confirmation
\* of a fresh start, the new thread; a declined confirmation restores the
\* controls and starts nothing
StartAnalysis(starting_fen, target_depth, resume, confirmed) ==
    /\ worker.btn_start
    /\ worker.started < MaxWorkers
    /\ worker' = IF ~resume /\ ~confirmed THEN worker
                 ELSE [ worker EXCEPT
                          !.btn_start = FALSE, !.btn_stop = TRUE,
                          !.is_running = TRUE, !.at = "run",
                          !.starting_fen = starting_fen,
                          !.target_depth = target_depth, !.resume = resume,
                          !.put = 0, !.started = @ + 1 ]
    /\ UNCHANGED << env, db, pc, run, hist, raVars, simple, st >>

\* ChessApp.stop_analysis (lines 551-555), bound to the Stop button
StopAnalysis ==
    /\ worker.btn_stop
    /\ worker.at # "none"
    /\ worker' = [ worker EXCEPT !.is_running = FALSE, !.btn_stop = FALSE ]
    /\ UNCHANGED << env, db, pc, run, hist, raVars, simple, st >>

\* run(), lines 45-52: the store is cleared unless the run resumes
WorkerClear ==
    /\ worker.at = "run"
    /\ db' = IF worker.resume THEN db ELSE Clear(db)
    /\ worker' = [ worker EXCEPT !.at = "call" ]
    /\ UNCHANGED << env, pc, run, hist, raVars, simple, st >>

\* run(), lines 62-94: the call of generate_move_tree; when it raises,
\* control goes to the handler; when it returns, a stopped worker returns
\* without a result (lines 70-71) and a running one analyzes the tree and
\* puts the results on the queue
WorkerCall ==
    /\ worker.at = "call"
    /\ IF CallRaises
       THEN /\ worker' = [ worker EXCEPT !.at = "except" ]
            /\ db' = db
       ELSE \E out \in { WholeOutcome(Begin(env, db, worker.starting_fen,
                                            worker.target_depth, worker.resume),
                                      env, db) } :
              /\ db' = out.db
              /\ worker' = IF ~worker.is_running
                           THEN [ worker EXCEPT !.at = "done" ]
                           ELSE [ worker EXCEPT
                                    !.at = "done", !.put = @ + 1,
                                    !.result_queue = Append(@, "results") ]
    /\ UNCHANGED << env, pc, run, hist, raVars, simple, st >>

\* a handler that logs the error and puts nothing on the queue
AfterHandlerLogOnly(w) == [ w EXCEPT !.at = "done" ]

\* the worker after its handler (lines 96-100): the error is on the queue
AfterHandler(w) ==
    [ w EXCEPT !.at = "done", !.put = @ + 1,
               !.result_queue = Append(@, "error") ]

\* run(), lines 96-100: the handler puts the error on the result queue
WorkerExcept ==
    /\ worker.at = "except"
    /\ worker' = AfterHandler(worker)
    /\ UNCHANGED << env, db, pc, run, hist, raVars, simple, st >>

\* ChessApp.start_monitoring (lines 569-572) with a result waiting:
\* analysis_finished (lines 577-589) runs for every item of the queue
Monitor ==
    /\ worker.result_queue # << >>
    /\ worker' = [ worker EXCEPT !.result_queue = << >>,
                                 !.btn_start = TRUE, !.btn_stop = FALSE,
                                 !.finished = @ + Len(worker.result_queue) ]
    /\ UNCHANGED << env, db, pc, run, hist, raVars, simple, st >>

WorkerThread == WorkerClear \/ WorkerCall \/ WorkerExcept

WorkerNext ==
    \/ \E starting_fen \in Catalogue[env.o].roots, target_depth \in 0 .. MaxDepth,
          resume, confirmed \in BOOLEAN :
            StartAnalysis(starting_fen, target_depth, resume, confirmed)
    \/ StopAnalysis
    \/ WorkerClear
    \/ WorkerCall
    \/ WorkerExcept
    \/ Monitor

(***************************************************************************)
(* RetrogradeAnalyzer.  The analyzer is handed a tree: the dict returned   *)
(* by generate_move_tree, optionally with the root added at depth 0 (as    *)
(* the unit tests do) and optionally with a 'children' list of child fens  *)
(* in every record (the field build_parent_map reads).                     *)
(***************************************************************************)
MaxAnalyses == 2

\* the root record the unit tests add to a tree (test_retrograde_analysis.py)
RootRecord(starting_fen) ==
    [ fen |-> starting_fen, depth |-> 0, moves |-> << >>,
      is_checkmate |-> FALSE, is_stalemate |-> FALSE,
      board |-> BoardOf(starting_fen) ]

\* the fens of the tree one legal move away from a board
RECURSIVE ChildFens(_, _, _, _)
ChildFens(o, tree, board, i) ==
    IF i > Len(LegalMoves(o, board)) THEN << >>
    ELSE LET key == Fen(LegalMoves(o, board)[i].to)
         IN  (IF InTree(tree, key) THEN << key >> ELSE << >>)
             \o ChildFens(o, tree, board, i + 1)

WithChildren(o, tree) ==
    [ i \in DOMAIN tree |->
        [ fen |-> tree[i].fen, depth |-> tree[i].depth, moves |-> tree[i].moves,
          is_checkmate |-> tree[i].is_checkmate,
          is_stalemate |-> tree[i].is_stalemate, board |-> tree[i].board,
          children |-> ChildFens(o, tree, tree[i].board, 1) ] ]

\* data.get('children', [])
Children(data) == IF "children" \in DOMAIN data THEN data.children ELSE << >>

\* the tree of a run to depth k followed by a resumed run to max_depth
ResumedRun(v, starting_fen, k, max_depth) ==
    FinishRun(Begin(v, SaveTree(EmptyDb, DirectRun(v, starting_fen, k),
                                starting_fen, k, k, 0),
                    starting_fen, max_depth, TRUE), v)

\* a scan that collects every position with a terminal flag
FindCheckmatesOrStalemates(tree) ==
    LET ends == SelectSeq(tree, LAMBDA data : data.is_checkmate \/ data.is_stalemate)
    IN  [ i \in DOMAIN ends |-> ends[i].fen ]

\* find_checkmates
FindCheckmates(tree) ==
    LET mates == SelectSeq(tree, LAMBDA data : data.is_checkmate)
    IN  [ i \in DOMAIN mates |-> mates[i].fen ]

\* initialize_move_counts: len(list(board.legal_moves)) for every position;
\* keys of an earlier call stay in the dict
InitializeMoveCounts(o, tree, counts) ==
    [ fen \in (DOMAIN counts) \cup Keys(tree) |->
        IF fen \in Keys(tree)
        THEN Len(LegalMoves(o, Lookup(tree, fen).board))
        ELSE counts[fen] ]

ZeroStats ==
    [ positions |-> 0, checkmates |-> 0, dead_ends |-> 0,
      available_moves |-> 0, initial_moves |-> 0, safe_moves |-> 0 ]

\* depth_stats[depth] of the defaultdict
StatsAt(stats, depth) == IF depth \in DOMAIN stats THEN stats[depth] ELSE ZeroStats

\* depth_stats[depth] = s
SetStats(stats, depth, s) ==
    [ d \in (DOMAIN stats) \cup {depth} |-> IF d = depth THEN s ELSE stats[d] ]

\* collect_depth_statistics
RECURSIVE CollectDepthStatistics(_, _, _, _)
CollectDepthStatistics(stats, tree, initial, i) ==
    IF i > Len(tree) THEN stats
    ELSE LET data == tree[i]
             s    == StatsAt(stats, data.depth)
             s1   == [ s EXCEPT
                         !.positions = @ + 1,
                         !.checkmates = IF data.is_checkmate THEN @ + 1 ELSE @,
                         !.available_moves = @ + initial[data.fen],
                         !.initial_moves = @ + initial[data.fen] ]
         IN  CollectDepthStatistics(SetStats(stats, data.depth, s1), tree, initial, i + 1)

\* the parents build_parent_map finds for one checkmate: one entry for every
\* occurrence of the checkmate in a record's children, in tree order
RECURSIVE ParentsOf(_, _, _)
ParentsOf(tree, child_fen, i) ==
    IF i > Len(tree) THEN << >>
    ELSE LET hits == SelectSeq(Children(tree[i]), LAMBDA c : c = child_fen)
         IN  [ j \in DOMAIN hits |-> tree[i].fen ] \o ParentsOf(tree, child_fen, i + 1)

\* a parent map that records every parent twice
BuildParentMapTwice(tree, checkmates) ==
    [ fen \in Range(checkmates) |->
        ParentsOf(tree, fen, 1) \o ParentsOf(tree, fen, 1) ]

\* build_parent_map: keys are the checkmates only
BuildParentMap(tree, checkmates) ==
    [ fen \in Range(checkmates) |-> ParentsOf(tree, fen, 1) ]

\* find_parent_positions
FindParentPositions(parent_map, position_fen) ==
    IF position_fen \in DOMAIN parent_map THEN parent_map[position_fen] ELSE << >>

\* the update of depth_stats with the dead ends (lines 185-187)
RECURSIVE TallyDeadEnds(_, _, _)
TallyDeadEnds(stats, tree, dead) ==
    IF dead = {} THEN stats
    ELSE LET fen   == CHOOSE f \in dead : TRUE
             depth == Lookup(tree, fen).depth
             s     == StatsAt(stats, depth)
         IN  TallyDeadEnds(SetStats(stats, depth, [ s EXCEPT !.dead_ends = @ + 1 ]),
                           tree, dead \ {fen})

\* collect_final_statistics
RECURSIVE CollectFinalStatistics(_, _, _, _)
CollectFinalStatistics(stats, tree, counts, i) ==
    IF i > Len(tree) THEN stats
    ELSE LET data == tree[i]
             s    == StatsAt(stats, data.depth)
         IN  CollectFinalStatistics(
                 SetStats(stats, data.depth,
                          [ s EXCEPT !.safe_moves = @ + counts[data.fen] ]),
                 tree, counts, i + 1)

\* a Python value that is None or an int
None == [ none |-> TRUE, int |-> 0 ]

Int_(n) == [ none |-> FALSE, int |-> n ]

RECURSIVE MinDepth(_, _, _)
MinDepth(tree, dead, min_depth) ==
    IF dead = {} THEN min_depth
    ELSE LET fen   == CHOOSE f \in dead : TRUE
             depth == Lookup(tree, fen).depth
         IN  MinDepth(tree, dead \ {fen},
                      IF min_depth.none \/ depth < min_depth.int
                      THEN Int_(depth) ELSE min_depth)

\* a propagation depth that is 0 where there is no dead end
CalculatePropagationDepthZero(tree, dead_ends) == MinDepth(tree, dead_ends, Int_(0))

\* the least depth of the tree, whatever the dead ends are
CalculatePropagationDepthOfTree(tree, dead_ends) ==
    IF dead_ends = {} THEN None ELSE MinDepth(tree, Keys(tree), None)

\* calculate_propagation_depth: None without dead ends, else the least depth
CalculatePropagationDepth(tree, dead_ends) ==
    IF dead_ends = {} THEN None ELSE MinDepth(tree, dead_ends, None)

\* the values a ratio takes: a float a / b, float('inf'), the string
\* "Infinity"; a division by zero raises instead of returning a value
Quotient(a, b) ==
    [ kind |-> IF b = 0 THEN "ZeroDivisionError" ELSE "number", num |-> a, den |-> b ]

FloatInf == [ kind |-> "inf", num |-> 0, den |-> 0 ]

Infinity == [ kind |-> "Infinity", num |-> 0, den |-> 0 ]

\* the entry of one depth without the barrier test
DominicRatioAtUnguarded(stats) ==
    LET barrier_size == stats.checkmates + stats.dead_ends
    IN  [ moves |-> stats.available_moves, checkmates |-> stats.checkmates,
          dead_ends |-> stats.dead_ends, barrier_size |-> barrier_size,
          ratio |-> Quotient(stats.available_moves, barrier_size) ]

\* calculate_dominic_ratio: the entry of one depth (lines 264-281)
DominicRatioAt(stats) ==
    LET barrier_size == stats.checkmates + stats.dead_ends
        ratio == IF barrier_size > 0
                 THEN Quotient(stats.available_moves, barrier_size)
                 ELSE Infinity
    IN  [ moves |-> stats.available_moves, checkmates |-> stats.checkmates,
          dead_ends |-> stats.dead_ends, barrier_size |-> barrier_size,
          ratio |-> ratio ]

CalculateDominicRatio(depth_stats) ==
    [ depth \in DOMAIN depth_stats |-> DominicRatioAt(depth_stats[depth]) ]

\* a refined entry computed from the moves available before the decrement
RefinedRatioAtAvailable(stats) ==
    LET barrier_size == stats.checkmates + stats.dead_ends
        ratio == IF barrier_size > 0
                 THEN Quotient(stats.available_moves, barrier_size)
                 ELSE FloatInf
    IN  [ moves |-> stats.available_moves, checkmates |-> stats.checkmates,
          dead_ends |-> stats.dead_ends, barrier_size |-> barrier_size,
          ratio |-> IF ratio # FloatInf THEN ratio ELSE Infinity ]

\* calculate_refined_ratio: the entry of one depth (lines 294-307)
RefinedRatioAt(stats) ==
    LET barrier_size == stats.checkmates + stats.dead_ends
        ratio == IF barrier_size > 0
                 THEN Quotient(stats.safe_moves, barrier_size)
                 ELSE FloatInf
    IN  [ moves |-> stats.safe_moves, checkmates |-> stats.checkmates,
          dead_ends |-> stats.dead_ends, barrier_size |-> barrier_size,
          ratio |-> IF ratio # FloatInf THEN ratio ELSE Infinity ]

CalculateRefinedRatio(depth_stats) ==
    [ depth \in DOMAIN depth_stats |-> RefinedRatioAt(depth_stats[depth]) ]

\* the dict analyze returns (lines 94-103), the parts that are compared
NoResult == [ propagation_depth |-> None, dominic_ratio |-> << >>,
              refined_ratio |-> << >>, depth_statistics |-> << >>,
              dead_ends |-> {} ]

(***************************************************************************)
(* analyze(), one action per step.                                         *)
(***************************************************************************)
NewAnalyzer(move_tree, starting_fen) ==
    [ tree |-> move_tree, starting_fen |-> starting_fen, dead_ends |-> {},
      move_counts |-> << >>, initial_move_counts |-> << >>,
      depth_stats |-> << >>, parent_map |-> << >>, checkmates |-> << >> ]

NoDec == [ to_process |-> << >>, processed |-> {}, bad_position |-> -1,
           parents |-> << >>, pi |-> 1 ]

NoObs == [ passes |-> 0, times |-> << >>, decs |-> << >> ]

\* the trees the builder returns: direct runs and resumed runs
BuiltTrees(v, starting_fen) ==
    { DirectRun(v, starting_fen, d) : d \in 0 .. MaxDepth }
    \cup { ResumedRun(v, starting_fen, k, d) :
             k \in 1 .. MaxDepth, d \in 1 .. MaxDepth }

\* a built tree as it is, with the root record, and either with children
Variants(o, starting_fen, t) ==
    { t, Append(t, RootRecord(starting_fen)), WithChildren(o, t),
      WithChildren(o, Append(t, RootRecord(starting_fen))) }

\* the trees handed to the analyzer
InputTrees(v, starting_fen) ==
    UNION { Variants(v.o, starting_fen, t) : t \in BuiltTrees(v, starting_fen) }

StoreIdle == st = NoStore

NoSimple ==
    [ starting_fen |-> -1, max_depth |-> 0, positions_analyzed |-> 0,
      tree |-> << >>, queue |-> << >>,
      cur |-> [ board |-> -1, depth |-> 0, moves |-> << >> ], mi |-> 1,
      at |-> "none" ]

SimpleIdle == simple = NoSimple

RaIdle ==
    /\ an = NewAnalyzer(<< >>, -1)
    /\ dec = NoDec
    /\ rpc = "none"
    /\ obs = NoObs
    /\ res = NoResult

BfsIdle ==
    /\ db = EmptyDb
    /\ pc = "idle"
    /\ run = NoRun
    /\ hist = << >>
    /\ worker = NewWorker

\* RetrogradeAnalyzer(tree, starting_fen)
RaInit ==
    /\ EnvInit
    /\ env.save_interval = 1
    /\ BfsIdle
    /\ \E starting_fen \in Catalogue[env.o].roots :
         \E t \in InputTrees(env, starting_fen) :
            an = NewAnalyzer(t, starting_fen)
    /\ dec = NoDec
    /\ rpc = "new"
    /\ obs = NoObs
    /\ res = NoResult
    /\ SimpleIdle
    /\ StoreIdle

\* steps 1 and 2: find_checkmates, initialize_move_counts
FindAndInitialize ==
    /\ rpc \in {"new", "done"}
    /\ obs.passes < MaxAnalyses
    /\ LET counts == InitializeMoveCounts(env.o, an.tree, an.move_counts)
           initial == InitializeMoveCounts(env.o, an.tree, an.initial_move_counts)
       IN  an' = [ an EXCEPT !.checkmates = FindCheckmates(an.tree),
                             !.move_counts = counts,
                             !.initial_move_counts = initial ]
    /\ obs' = [ passes |-> obs.passes + 1, times |-> << >>, decs |-> << >> ]
    /\ rpc' = "counted"
    /\ UNCHANGED << dec, res, bfsVars, simple, st >>

\* step 3: collect_depth_statistics
CollectStats ==
    /\ rpc = "counted"
    /\ an' = [ an EXCEPT !.depth_stats =
                 CollectDepthStatistics(@, an.tree, an.initial_move_counts, 1) ]
    /\ rpc' = "stats"
    /\ UNCHANGED << dec, obs, res, bfsVars, simple, st >>

\* step 3.5: build_parent_map
BuildMap ==
    /\ rpc = "stats"
    /\ an' = [ an EXCEPT !.parent_map = BuildParentMap(an.tree, an.checkmates) ]
    /\ rpc' = "mapped"
    /\ UNCHANGED << dec, obs, res, bfsVars, simple, st >>

\* decrement_from_checkmates(self.checkmates): lines 155-157
DecrementBegin ==
    /\ rpc = "mapped"
    /\ dec' = [ NoDec EXCEPT !.to_process = an.checkmates ]
    /\ rpc' = "pop"
    /\ UNCHANGED << an, obs, res, bfsVars, simple, st >>

Bump(f, x) == [ y \in (DOMAIN f) \cup {x} |->
                  IF y = x THEN (IF x \in DOMAIN f THEN f[x] + 1 ELSE 1) ELSE f[y] ]

\* a pop that leaves the element on the worklist
PoppedKept(to_process) == to_process

\* to_process.pop(0): what is left on the worklist
Popped(to_process) == Tail(to_process)

\* the duplicate-processing guard (line 163)
Skip(bad_position, processed) == bad_position \in processed

\* lines 159-168: pop, guard, mark processed, look the parents up
Pop ==
    /\ rpc = "pop"
    /\ dec.to_process # << >>
    /\ LET bad_position == Head(dec.to_process)
           rest == Popped(dec.to_process)
       IN  IF Skip(bad_position, dec.processed)
           THEN /\ dec' = [ dec EXCEPT !.to_process = rest, !.bad_position = bad_position ]
                /\ UNCHANGED << rpc, obs >>
           ELSE LET parents == FindParentPositions(an.parent_map, bad_position)
                IN  /\ dec' = [ to_process |-> rest,
                                processed |-> dec.processed \cup {bad_position},
                                bad_position |-> bad_position,
                                parents |-> parents, pi |-> 1 ]
                    /\ rpc' = IF parents = << >> THEN "pop" ELSE "parents"
                    /\ obs' = [ obs EXCEPT !.times = Bump(@, bad_position) ]
    /\ UNCHANGED << an, res, bfsVars, simple, st >>

\* a decrement that counts up
DecrementUp(counts, parent_fen) == [ counts EXCEPT ![parent_fen] = @ + 1 ]

\* a decrement by two
DecrementByTwo(counts, parent_fen) == [ counts EXCEPT ![parent_fen] = @ - 2 ]

\* self.move_counts[parent_fen] -= 1
Decrement(counts, parent_fen) == [ counts EXCEPT ![parent_fen] = @ - 1 ]

\* the dead-end test (line 175)
NoMovesLeft(count) == count <= 0

\* lines 171-178: one parent of the bad position
DecrementParent ==
    /\ rpc = "parents"
    /\ LET parent_fen == dec.parents[dec.pi]
           counts == Decrement(an.move_counts, parent_fen)
           dead == NoMovesLeft(counts[parent_fen])
       IN  /\ an' = [ an EXCEPT !.move_counts = counts,
                                !.dead_ends = IF dead THEN @ \cup {parent_fen} ELSE @ ]
           /\ dec' = [ dec EXCEPT !.to_process = IF dead THEN Append(@, parent_fen) ELSE @,
                                  !.pi = @ + 1 ]
           /\ obs' = [ obs EXCEPT !.decs = Bump(@, << dec.bad_position, parent_fen >>) ]
    /\ rpc' = IF dec.pi + 1 > Len(dec.parents) THEN "pop" ELSE "parents"
    /\ UNCHANGED << res, bfsVars, simple, st >>

\* the worklist is empty: lines 184-187
DecrementEnd ==
    /\ rpc = "pop"
    /\ dec.to_process = << >>
    /\ an' = [ an EXCEPT !.depth_stats = TallyDeadEnds(@, an.tree, an.dead_ends) ]
    /\ rpc' = "tallied"
    /\ UNCHANGED << dec, obs, res, bfsVars, simple, st >>

\* steps 5 and 6: collect_final_statistics, the propagation depth, the two
\* ratios, and the return of analyze()
Finish ==
    /\ rpc = "tallied"
    /\ LET stats == CollectFinalStatistics(an.depth_stats, an.tree, an.move_counts, 1)
       IN  /\ an' = [ an EXCEPT !.depth_stats = stats ]
           /\ res' = [ propagation_depth |->
                           CalculatePropagationDepth(an.tree, an.dead_ends),
                       dominic_ratio |-> CalculateDominicRatio(stats),
                       refined_ratio |-> CalculateRefinedRatio(stats),
                       depth_statistics |-> stats,
                       dead_ends |-> an.dead_ends ]
    /\ rpc' = "done"
    /\ UNCHANGED << dec, obs, bfsVars, simple, st >>

RaNext ==
    \/ FindAndInitialize
    \/ CollectStats
    \/ BuildMap
    \/ DecrementBegin
    \/ Pop
    \/ DecrementParent
    \/ DecrementEnd
    \/ Finish

(***************************************************************************)
(* ChessBFS.generate_move_tree_simple, one action per step.                *)
(***************************************************************************)
\* a test that skips the bishop promotions only
SkippedPromotionBishop(e) == e.promotion = "b"

\* the promotions the simple builder always skips (line 240)
SkippedPromotion(e) == e.promotion \in {"b", "r"}

\* a record that takes the depth of its parent
SimpleRecordSameDepth(o, new_board, depth, new_history) ==
    NewRecord(o, new_board, depth, new_history)

\* the record of a newly reached board (lines 255-261)
SimpleRecord(o, new_board, depth, new_history) ==
    NewRecord(o, new_board, depth + 1, new_history)

\* lines 243-265 for one move that is not skipped
SimpleMove(s, o, e) ==
    LET new_board    == Push(o, s.cur.board, Move(e))
        new_history  == Append(s.cur.moves, Move(e))
        position_key == Fen(new_board)
        seen         == InTree(s.tree, position_key)
    IN  [ s EXCEPT
            !.positions_analyzed = @ + 1,
            !.tree = IF seen THEN @
                     ELSE Append(@, SimpleRecord(o, new_board, s.cur.depth, new_history)),
            !.queue = IF ~seen /\ ~IsGameOver(o, new_board)
                      THEN Append(@, [ board |-> new_board, depth |-> s.cur.depth + 1,
                                       moves |-> new_history ])
                      ELSE @ ]

\* ChessBFS(starting_fen).generate_move_tree_simple(max_depth), lines 216-227
SimpleInit ==
    /\ EnvInit
    /\ env.save_interval = 1
    /\ env.limit_promotions /\ ~env.use_checkmate_filter
    /\ BfsIdle
    /\ RaIdle
    /\ \E starting_fen \in Catalogue[env.o].roots, max_depth \in 0 .. MaxDepth :
         simple = [ NoSimple EXCEPT
                      !.starting_fen = starting_fen, !.max_depth = max_depth,
                      !.queue = << [ board |-> BoardOf(starting_fen), depth |-> 0,
                                     moves |-> << >> ] >>,
                      !.at = "pop" ]
    /\ StoreIdle

\* queue.popleft() and the depth test (lines 230-235)
SimplePop ==
    /\ simple.at = "pop"
    /\ simple.queue # << >>
    /\ LET entry == Head(simple.queue)
           moves == LegalMoves(env.o, entry.board)
       IN  simple' = [ simple EXCEPT
                         !.queue = Tail(@), !.cur = entry, !.mi = 1,
                         !.at = IF entry.depth >= simple.max_depth \/ moves = << >>
                                THEN "pop" ELSE "moves" ]
    /\ UNCHANGED << bfsVars, raVars, st >>

\* one legal move of the popped board (lines 238-265)
SimpleExpand ==
    /\ simple.at = "moves"
    /\ LET moves == LegalMoves(env.o, simple.cur.board)
           e     == moves[simple.mi]
           s1    == IF SkippedPromotion(e) THEN simple ELSE SimpleMove(simple, env.o, e)
       IN  simple' = [ s1 EXCEPT !.mi = @ + 1,
                                 !.at = IF simple.mi + 1 > Len(moves)
                                        THEN "pop" ELSE "moves" ]
    /\ UNCHANGED << bfsVars, raVars, st >>

\* the queue is empty: the return (lines 272-280)
SimpleReturn ==
    /\ simple.at = "pop"
    /\ simple.queue = << >>
    /\ simple' = [ simple EXCEPT !.at = "done" ]
    /\ UNCHANGED << bfsVars, raVars, st >>

SimpleNext ==
    \/ SimplePop
    \/ SimpleExpand
    \/ SimpleReturn

(***************************************************************************)
(* ChessTreeStorage called directly, as its unit tests do.                 *)
(***************************************************************************)
MaxSaves == 2

\* the trees a client saves: the empty tree, full trees of the builder, and
\* the one-record tree of the unit tests (the root at depth 0)
StoreTrees(v) ==
    UNION { { DirectRun(v, starting_fen, d) : d \in {0, MaxDepth} }
            \cup { << RootRecord(starting_fen) >> } :
            starting_fen \in Catalogue[v.o].roots }

\* the (current_depth, positions_analyzed) pairs a client passes
StoreCounts == { << 0, 5 >>, << 1, 0 >> }

\* ChessTreeStorage(db_path) on a new file
StoreInit ==
    /\ EnvInit
    /\ env.save_interval = 1
    /\ env.limit_promotions /\ ~env.use_checkmate_filter
    /\ BfsIdle
    /\ RaIdle
    /\ SimpleIdle
    /\ StoreIdle

\* storage.save_tree(tree, starting_fen, current_depth, max_depth,
\* positions_analyzed) is called: the cursor (lines 52-54)
StoreSave(tree, starting_fen, current_depth, max_depth, positions_analyzed) ==
    /\ st.at = "idle"
    /\ st.saves < MaxSaves
    /\ st' = [ st EXCEPT
                 !.at = IF tree = << >> THEN "progress" ELSE "rows",
                 !.i = 1,
                 !.pending = [ tree |-> tree,
                               marker |-> Marker(starting_fen, current_depth,
                                                 max_depth, positions_analyzed),
                               on_empty |-> (db = EmptyDb), before |-> db ],
                 !.txn = db, !.saves = @ + 1, !.read = FALSE,
                 !.failed = FALSE ]
    /\ UNCHANGED << bfsVars, raVars, simple >>

\* one INSERT OR REPLACE of the loop (lines 57-69)
StoreInsert ==
    /\ st.at = "rows"
    /\ LET txn == [ st.txn EXCEPT
                     !.positions = InsertOrReplace(@, RowOf(st.pending.tree[st.i])) ]
       IN  /\ st' = [ st EXCEPT
                        !.txn = txn, !.i = @ + 1,
                        !.at = IF st.i + 1 > Len(st.pending.tree)
                               THEN "progress" ELSE "rows" ]
           /\ db' = AfterExecute(db, txn)
    /\ UNCHANGED << env, pc, run, hist, worker, raVars, simple >>

\* the INSERT of the progress row (lines 72-82)
StoreProgress ==
    /\ st.at = "progress"
    /\ LET txn == [ st.txn EXCEPT !.progress = Append(@, st.pending.marker) ]
       IN  /\ st' = [ st EXCEPT !.txn = txn, !.at = "commit" ]
           /\ db' = AfterExecute(db, txn)
    /\ UNCHANGED << env, pc, run, hist, worker, raVars, simple >>

\* conn.commit() and the return (lines 84-85)
StoreCommit ==
    /\ st.at = "commit"
    /\ db' = st.txn
    /\ st' = [ st EXCEPT
                 !.at = "idle", !.last = "save", !.tree = st.pending.tree,
                 !.marker = st.pending.marker, !.on_empty = st.pending.on_empty ]
    /\ UNCHANGED << env, pc, run, hist, worker, raVars, simple >>

\* a statement of save_tree raises (I/O or serialization error) or the
\* process dies before the commit: save_tree has no handler, the exception
\* leaves it, and the open transaction is rolled back with the connection
StoreFail ==
    /\ st.at \in {"rows", "progress", "commit"}
    /\ st' = [ st EXCEPT !.at = "idle", !.txn = db, !.failed = TRUE ]
    /\ UNCHANGED << bfsVars, raVars, simple >>

\* storage.clear()
StoreClear ==
    /\ st.at = "idle"
    /\ st.last # "clear"
    /\ db' = Clear(db)
    /\ st' = [ st EXCEPT !.last = "clear", !.read = FALSE, !.failed = FALSE ]
    /\ UNCHANGED << env, pc, run, hist, worker, raVars, simple >>

\* storage.load_tree() and storage.load_progress()
StoreLoad ==
    /\ st.at = "idle"
    /\ ~st.read
    /\ st' = [ st EXCEPT !.loaded = LoadTree(db), !.progress = LoadProgress(db),
                         !.read = TRUE ]
    /\ UNCHANGED << bfsVars, raVars, simple >>

StoreNext ==
    \/ \E tree \in StoreTrees(env), starting_fen \in Catalogue[env.o].roots,
          counts \in StoreCounts :
            StoreSave(tree, starting_fen, counts[1], MaxDepth, counts[2])
    \/ StoreInsert
    \/ StoreProgress
    \/ StoreCommit
    \/ StoreFail
    \/ StoreClear
    \/ StoreLoad

(***************************************************************************)
(* The specifications: the exploring process with its store, the analyzer  *)
(* on a finished tree, the builder without persistence, and the store      *)
(* alone.                                                                  *)
(***************************************************************************)
Init == BfsInit /\ RaIdle /\ SimpleIdle /\ StoreIdle

Next == BfsNext

Spec == Init /\ [][Next]_vars

NextRA == RaNext

SpecRA == RaInit /\ [][NextRA]_vars

\* analyze() is one thread that runs without waiting
FairSpecRA == SpecRA /\ WF_vars(NextRA)

SpecSimple == SimpleInit /\ [][SimpleNext]_vars

SpecRuns == Init /\ [][RunsNext]_vars

\* the exploration with the GUI thread beside it: save_interval = 1 and the
\* default options, as AnalysisWorker.run passes them
GuiInit ==
    /\ Init
    /\ env.save_interval = 1
    /\ env.limit_promotions /\ ~env.use_checkmate_filter

NextGui == BfsNext \/ Stop

SpecGui == GuiInit /\ [][NextGui]_vars

SpecStore == StoreInit /\ [][StoreNext]_vars

\* the GUI with its worker thread
SpecWorker == GuiInit /\ [][WorkerNext]_vars

\* the worker thread runs without waiting, and the GUI polls its queues
\* every 100 ms (line 575)
FairSpecWorker == SpecWorker /\ WF_vars(WorkerThread) /\ WF_vars(Monitor)

(***************************************************************************)
(* Properties of the tree builder and its store.                           *)
(***************************************************************************)
\* the board reached from a board by a sequence of moves
RECURSIVE Replay(_, _, _, _)
Replay(o, board, moves, i) ==
    IF i > Len(moves) THEN board
    ELSE Replay(o, Push(o, board, moves[i]), moves, i + 1)

\* every move of the sequence is legal on the board it is played on
RECURSIVE LegalPath(_, _, _, _)
LegalPath(o, board, moves, i) ==
    \/ i > Len(moves)
    \/ /\ \E k \in DOMAIN LegalMoves(o, board) : Move(LegalMoves(o, board)[k]) = moves[i]
       /\ LegalPath(o, Push(o, board, moves[i]), moves, i + 1)

LastRun == hist[Len(hist)]

PrevRun == hist[Len(hist) - 1]

\* the tree an uninterrupted run of the last call would return
Reference == DirectRun(env, LastRun.root, LastRun.depth)

\* a run to depth k on an empty store has returned, and a resumed run of the
\* same root to a larger depth has returned after it
ResumedAfterCompleteRun ==
    /\ pc = "done"
    /\ Len(hist) >= 2
    /\ PrevRun.empty /\ PrevRun.outcome = "done"
    /\ LastRun.resume /\ LastRun.root = PrevRun.root
    /\ 1 <= PrevRun.depth /\ PrevRun.depth < LastRun.depth

\* C1: resume equivalence: a run to depth k < D followed by a resumed run of
\* the same root to depth D returns the PositionSet (identities, depths,
\* terminal flags) of one uninterrupted run to depth D from an empty store
C1_ResumeEquivalence ==
    ResumedAfterCompleteRun => PositionSet(run.tree) = PositionSet(Reference)

\* a run on an empty store was killed, and a resumed run of the same root and
\* target depth has returned after it
ResumedAfterKill ==
    /\ pc = "done"
    /\ Len(hist) >= 2
    /\ PrevRun.empty /\ PrevRun.outcome = "killed"
    /\ LastRun.resume /\ LastRun.root = PrevRun.root
    /\ LastRun.depth = PrevRun.depth

\* C2: crash-resume equivalence: after a kill at any point, a resumed run with
\* the same root and target depth returns the PositionSet of an uninterrupted
\* run; no position reachable within the target depth is missing
C2_CrashResumeEquivalence ==
    ResumedAfterKill => PositionSet(run.tree) = PositionSet(Reference)

\* C3: checkpoint marker invariant: whenever the newest progress row records
\* depth d for root r, the stored positions contain every position an
\* exploration of r reaches up to depth d (depth d is complete)
C3_MarkerDepthComplete ==
    db.progress # << >> =>
        LET m == LoadProgress(db)
        IN  PositionSet(DirectRun(env, m.starting_fen, m.current_depth))
                \subseteq PositionSet(LoadTree(db).tree)

\* identities with depth, move sequence and terminal flags
FullSet(tree) ==
    { [ fen |-> tree[i].fen, depth |-> tree[i].depth, moves |-> tree[i].moves,
        is_checkmate |-> tree[i].is_checkmate,
        is_stalemate |-> tree[i].is_stalemate ] : i \in DOMAIN tree }

\* the last call started from a store without positions and markers (empty,
\* or emptied by the call) and has returned
FreshRunDone ==
    /\ pc = "done"
    /\ hist # << >>
    /\ LastRun.empty \/ LastRun.cleared

\* the tree of the same call with the legal moves iterated in the other order
TwinRun == DirectRun([ env EXCEPT !.o = Twin(env.o) ], LastRun.root, LastRun.depth)

\* C12: determinism: a run from an empty store returns the same identities,
\* each with the same depth and the same move sequence, as the run of the
\* same root and target depth that iterates the legal moves (and with them
\* the frontier) in another order
C12_Determinism ==
    FreshRunDone => FullSet(run.tree) = FullSet(TwinRun)

\* C12 amended: a run from an empty store returns the same identities with
\* the same depths and terminal flags whatever the order of iteration, and
\* the move sequence recorded for an identity is a sequence of depth-many
\* legal moves leading from the root to it
C12_DeterminismAmended ==
    FreshRunDone =>
        /\ PositionSet(run.tree) = PositionSet(TwinRun)
        /\ \A i \in DOMAIN run.tree :
             /\ Len(run.tree[i].moves) = run.tree[i].depth
             /\ LegalPath(env.o, BoardOf(LastRun.root), run.tree[i].moves, 1)
             /\ Fen(Replay(env.o, BoardOf(LastRun.root), run.tree[i].moves, 1))
                  = run.tree[i].fen

\* a run from an empty store has returned a position that two move
\* sequences reach, and the other order records the other sequence
C12_Witness ==
    /\ FreshRunDone
    /\ Twin(env.o) # env.o
    /\ \E i \in DOMAIN run.tree, j \in DOMAIN TwinRun :
         /\ run.tree[i].fen = TwinRun[j].fen
         /\ run.tree[i].moves # TwinRun[j].moves

\* the last call asked for depth 0, or asked to resume on a store whose
\* marker names the same root and a completed depth >= the target depth
NoopCall ==
    /\ pc = "done"
    /\ hist # << >>
    /\ \/ LastRun.depth = 0
       \/ /\ LastRun.resume
          /\ LastRun.before.progress # << >>
          /\ LoadProgress(LastRun.before).starting_fen = LastRun.root
          /\ LoadProgress(LastRun.before).current_depth >= LastRun.depth

NoopCallOnStoredTree ==
    /\ NoopCall
    /\ \/ LastRun.depth = 0
       \/ LoadTree(LastRun.before).tree # << >>

MismatchRunDone ==
    /\ pc = "done"
    /\ hist # << >>
    /\ LastRun.resume
    /\ LastRun.before.progress # << >>
    /\ LoadProgress(LastRun.before).starting_fen # LastRun.root

C15_FreshStartClears ==
    (/\ pc = "done" /\ hist # << >>
     /\ ~LastRun.resume /\ LastRun.depth >= 1
     /\ LastRun.before.positions # << >> /\ LastRun.before.progress # << >>)
    => /\ Len(LoadTree(db).tree) = Len(run.tree)
       /\ FullSet(LoadTree(db).tree) = FullSet(run.tree)

\* the depths at which a tree holds a position
Depths(tree) == { tree[i].depth : i \in DOMAIN tree }

MaxOf(S) == CHOOSE n \in S : \A m \in S : m <= n

\* C13: depth completeness: the tree a completed run to depth D >= 1 returns
\* holds a position at every depth from 0 (the root) to the largest depth it
\* holds: the set of depths present is exactly 0..max
C13_DepthComplete ==
    (pc = "done" /\ hist # << >> /\ LastRun.depth >= 1 /\ run.tree # << >>) =>
        Depths(run.tree) = 0 .. MaxOf(Depths(run.tree))

\* the recorded flags of a position are the oracle's classification of it
FlagsFromOracle(o, data) ==
    /\ data.is_checkmate = IsCheckmate(o, BoardOf(data.fen))
    /\ data.is_stalemate = IsStalemate(o, BoardOf(data.fen))

\* no position the move sequence passes through after the root and before
\* its end is one where the oracle reports the game over
ThroughLivePositions(o, starting_fen, moves) ==
    \A n \in 1 .. (Len(moves) - 1) :
        ~IsGameOver(o, Replay(o, BoardOf(starting_fen), SubSeq(moves, 1, n), 1))

\* C18: terminal classification and non-expansion: in every run, fresh or
\* resumed, every recorded position carries the oracle's flags and no
\* recorded move sequence passes through a position where the game is over
C18_TerminalNotExpanded ==
    (pc \in {"expand", "final", "done"} /\ hist # << >>) =>
        \A i \in DOMAIN run.tree :
            /\ FlagsFromOracle(env.o, run.tree[i])
            /\ ThroughLivePositions(env.o, LastRun.root, run.tree[i].moves)

\* the legal moves of the root of the simple builder
RootMoves == LegalMoves(env.o, BoardOf(simple.starting_fen))

\* the root is not terminal, no legal move of it is skipped and distinct
\* moves lead to distinct identities
PlainRoot ==
    /\ ~IsGameOver(env.o, BoardOf(simple.starting_fen))
    /\ RootMoves # << >>
    /\ \A k \in DOMAIN RootMoves : ~SkippedPromotion(RootMoves[k])
    /\ \A k, l \in DOMAIN RootMoves :
         RootMoves[k].to = RootMoves[l].to => k = l

\* C17: depth-1 exploration: generate_move_tree_simple(1) on such a root
\* returns exactly one entry per legal move of the root, in the order of the
\* moves, each at depth 1 with that one move as its sequence, and
\* positions_analyzed is the number of legal moves
C17_DepthOne ==
    (simple.at = "done" /\ simple.max_depth = 1 /\ PlainRoot) =>
        /\ Len(simple.tree) = Len(RootMoves)
        /\ simple.positions_analyzed = Len(RootMoves)
        /\ \A k \in DOMAIN simple.tree :
             /\ simple.tree[k].fen = Fen(RootMoves[k].to)
             /\ simple.tree[k].depth = 1
             /\ simple.tree[k].moves = << Move(RootMoves[k]) >>

\* a depth-1 exploration of a root with several legal moves has returned
C17_Witness ==
    /\ simple.at = "done"
    /\ simple.max_depth = 1
    /\ PlainRoot
    /\ Len(RootMoves) >= 2
    /\ Len(simple.tree) >= 2

\* C19: save/load round trip: after save_tree(T, root, d, D, n) on an empty
\* store, load_tree returns a tree with exactly the identities of T, each
\* with the same depth, move sequence and terminal flags, and the marker
\* (root, d, D, n); load_progress returns the same marker
C19_SaveLoadRoundTrip ==
    (st.read /\ st.last = "save" /\ st.on_empty) =>
        /\ ~st.loaded.none
        /\ Len(st.loaded.tree) = Len(st.tree)
        /\ FullSet(st.loaded.tree) = FullSet(st.tree)
        /\ st.loaded.progress = st.marker
        /\ st.progress = st.marker

\* a tree with promotions and a stalemate has been saved on an empty store
\* and loaded back
C19_Witness ==
    /\ st.read /\ st.last = "save" /\ st.on_empty
    /\ \E i \in DOMAIN st.loaded.tree :
         /\ st.loaded.tree[i].is_stalemate
         /\ \E k \in DOMAIN st.loaded.tree[i].moves :
              st.loaded.tree[i].moves[k].promotion # ""
    /\ \E i \in DOMAIN st.loaded.tree : st.loaded.tree[i].is_checkmate

\* C20: reset: after clear, whatever saves preceded it, load_tree returns
\* (None, None), load_progress returns None, and the tables hold no
\* position and no marker
C20_Reset ==
    (st.last = "clear") =>
        /\ db.positions = << >>
        /\ db.progress = << >>
        /\ st.read => (st.loaded.none /\ st.loaded.tree = << >>
                       /\ st.loaded.progress = NoProgress
                       /\ st.progress = NoProgress)

\* the store was cleared after the largest number of saves and read
C20_Witness ==
    /\ st.last = "clear"
    /\ st.read
    /\ st.saves = MaxSaves
    /\ st.tree # << >>

\* the content a save_tree call leaves when all of it is applied
SavedAsOneUnit ==
    SaveTree(st.pending.before, st.pending.tree, st.pending.marker.starting_fen,
             st.pending.marker.current_depth, st.pending.marker.max_depth,
             st.pending.marker.positions_analyzed)

\* C21: atomic checkpoint: at every point of a save_tree call before its
\* commit, and after a call that raised or died before its commit, the
\* database holds exactly the positions and the marker it held when the call
\* began (the last successful save), and a later load_tree and
\* load_progress return them; once the call has committed the database
\* holds all its positions and its marker; the failure leaves save_tree
C21_AtomicCheckpoint ==
    /\ (st.at # "idle" \/ st.failed) => db = st.pending.before
    /\ (st.failed /\ st.read) =>
          /\ st.loaded = LoadTree(st.pending.before)
          /\ st.progress = LoadProgress(st.pending.before)
    /\ (st.at = "idle" /\ st.last = "save" /\ ~st.failed) => db = SavedAsOneUnit

\* a save of new positions on a store that holds a smaller tree and a
\* marker failed after some of its rows were written, and the store was
\* read afterwards
C21_Witness ==
    /\ st.failed /\ st.read
    /\ st.i > 1
    /\ st.pending.before.positions # << >>
    /\ ~(Keys(st.pending.tree) \subseteq Keys(LoadTree(st.pending.before).tree))
    /\ st.pending.marker # LoadProgress(st.pending.before)
    /\ st.loaded.progress = LoadProgress(st.pending.before)

\* C22: move-count checkpoint bound: while generate_move_tree explores, the
\* number of moves analyzed since the last save never exceeds the configured
\* threshold save_interval_nodes
C22_MoveCountCheckpoint ==
    pc \in {"expand", "final"} => run.unsaved <= env.save_interval_nodes

\* C23: cooperative cancellation: once stop() has been called for a running
\* exploration, the exploration makes at most one further move expansion
C23_CooperativeCancel ==
    ~worker.is_running => worker.after <= 1

\* the inner loop stands before a legal move that is excluded
BeforePrunedMove ==
    /\ pc = "expand"
    /\ run.li <= Len(run.current_level)
    /\ Pruned(LegalMoves(env.o, run.current_level[run.li].board)[run.mi], env)

PromotionsIn(tree) ==
    UNION { { tree[i].moves[k].promotion : k \in DOMAIN tree[i].moves } :
            i \in DOMAIN tree }

\* C24: move pruning: the loop pass of an excluded move (a bishop or rook
\* promotion under promotion limiting, a move the filter rejects) leaves the
\* tree, the next frontier and positions_analyzed as they were; with
\* promotion limiting no recorded move sequence contains a rook or bishop
\* promotion, and a run to depth >= 1 from an empty store has recorded every
\* move of the root that is not excluded, queen and knight promotions
\* among them
C24_MovePruning ==
    /\ [][(BeforePrunedMove /\ pc' = "expand") =>
            /\ run'.tree = run.tree
            /\ run'.next_level = run.next_level
            /\ run'.positions_analyzed = run.positions_analyzed]_vars
    /\ [](env.limit_promotions => PromotionsIn(run.tree) \cap {"r", "b"} = {})
    /\ []((FreshRunDone /\ LastRun.depth >= 1) =>
            \A k \in DOMAIN LegalMoves(env.o, BoardOf(LastRun.root)) :
                LET e == LegalMoves(env.o, BoardOf(LastRun.root))[k]
                IN  ~Pruned(e, env) =>
                      \E i \in DOMAIN run.tree : run.tree[i].moves = << Move(e) >>)

\* a run with promotion limiting from a root that has all four promotions
\* has returned: the queen and the knight promotion are recorded, and three
\* moves of the root were analyzed
C24_Witness ==
    /\ FreshRunDone
    /\ env.limit_promotions
    /\ {"q", "r", "n", "b"} \subseteq
          { LegalMoves(env.o, BoardOf(LastRun.root))[k].promotion :
              k \in DOMAIN LegalMoves(env.o, BoardOf(LastRun.root)) }
    /\ {"q", "n"} \subseteq PromotionsIn(run.tree)
    /\ LastRun.depth = 1
    /\ run.positions_analyzed = 3

\* the last call explored (it did not take the early return) and returned
ExploredRunDone ==
    /\ pc = "done"
    /\ hist # << >>
    /\ ~LastRun.noop

\* C25: store after a completed run: when generate_move_tree returns after
\* exploring, whether the loop ran to max_depth or stopped on an empty
\* frontier, the newest marker holds the requested root, current_depth =
\* max_depth = target depth and the instance's positions_analyzed, and
\* load_tree returns every position of the returned tree with its depth and
\* flags
C25_StoreAfterRun ==
    ExploredRunDone =>
        /\ LoadProgress(db) = Marker(LastRun.root, LastRun.depth, LastRun.depth,
                                     run.positions_analyzed)
        /\ PositionSet(run.tree) \subseteq PositionSet(LoadTree(db).tree)

\* a run has returned whose loop stopped on an empty frontier before the
\* target depth, and the store holds its positions
C25_Witness ==
    /\ ExploredRunDone
    /\ run.current_depth < LastRun.depth
    /\ run.tree # << >>
    /\ LoadProgress(db).current_depth = LastRun.depth
    /\ Keys(run.tree) \subseteq Keys(LoadTree(db).tree)

\* the inner loop stands before a move that is not excluded and leads to an
\* identity the tree holds
BeforeTransposition ==
    /\ pc = "expand"
    /\ run.li <= Len(run.current_level)
    /\ LET e == LegalMoves(env.o, run.current_level[run.li].board)[run.mi]
       IN  ~Pruned(e, env) /\ InTree(run.tree, Fen(e.to))

IsPrefix(s, t) == Len(s) <= Len(t) /\ SubSeq(t, 1, Len(s)) = s

\* C26: position immutability and transposition collapse: from the start of
\* a run to its return every step keeps the records of the tree as they are
\* (the tree only grows, at its end); reaching an identity of the tree again
\* changes neither the tree nor the next frontier; no identity has two
\* records and none is twice on a frontier
C26_Immutable ==
    /\ [][(pc \in {"expand", "final"} /\ pc' \in {"expand", "final", "done"}) =>
            IsPrefix(run.tree, run'.tree)]_vars
    /\ [][(BeforeTransposition /\ pc' = "expand") =>
            (run'.tree = run.tree /\ run'.next_level = run.next_level)]_vars
    /\ [](/\ \A i, j \in DOMAIN run.tree :
               run.tree[i].fen = run.tree[j].fen => i = j
          /\ \A i, j \in DOMAIN run.next_level :
               run.next_level[i].board = run.next_level[j].board => i = j
          /\ \A i, j \in DOMAIN run.current_level :
               run.current_level[i].board = run.current_level[j].board => i = j)

\* a run from an empty store to depth >= 2 has returned after it met an
\* identity a second time, by another move order
C26_Witness ==
    /\ FreshRunDone
    /\ LastRun.depth >= 2
    /\ run.positions_analyzed > Len(run.tree)
    /\ \E i, j \in DOMAIN run.tree :
         /\ i # j
         /\ run.tree[i].depth = run.tree[j].depth
         /\ \E k \in DOMAIN LegalMoves(env.o, run.tree[i].board),
               l \in DOMAIN LegalMoves(env.o, run.tree[j].board) :
                 LegalMoves(env.o, run.tree[i].board)[k].to
                   = LegalMoves(env.o, run.tree[j].board)[l].to

\* the move sequence of a record has the length of its depth and leads, by
\* legal moves, from the root to the identity of the record
ConsistentMoves(o, starting_fen, data) ==
    /\ Len(data.moves) = data.depth
    /\ LegalPath(o, BoardOf(starting_fen), data.moves, 1)
    /\ Fen(Replay(o, BoardOf(starting_fen), data.moves, 1)) = data.fen

\* C27: move-sequence consistency: in every run, fresh or resumed, every
\* record of the tree has a move sequence as long as its depth that leads
\* from the root of the run to its identity
C27_MoveSequences ==
    (pc \in {"expand", "final", "done"} /\ hist # << >>) =>
        \A i \in DOMAIN run.tree : ConsistentMoves(env.o, LastRun.root, run.tree[i])

\* the move sequence of a record without its last move
ParentMoves(data) == SubSeq(data.moves, 1, Len(data.moves) - 1)

\* the position before the last move of a record is the root for a record of
\* depth 1 and otherwise a record of the tree, one depth above and without
\* a terminal flag
ParentRecorded(o, starting_fen, tree, data) ==
    /\ data.moves # << >>
    /\ LegalPath(o, BoardOf(starting_fen), ParentMoves(data), 1)
    /\ LET parent == Fen(Replay(o, BoardOf(starting_fen), ParentMoves(data), 1))
       IN  /\ data.depth = 1 => parent = starting_fen
           /\ data.depth >= 2 =>
                 /\ InTree(tree, parent)
                 /\ Lookup(tree, parent).depth = data.depth - 1
                 /\ ~Lookup(tree, parent).is_checkmate
                 /\ ~Lookup(tree, parent).is_stalemate

\* C28: parent presence and depth step: in every returned tree the position
\* before the last move of a record at depth d >= 2 is recorded at depth
\* d - 1 without a terminal flag, and for d = 1 it is the root
C28_ParentPresent ==
    (pc = "done" /\ hist # << >>) =>
        \A i \in DOMAIN run.tree :
            ParentRecorded(env.o, LastRun.root, run.tree, run.tree[i])

\* the boards at the end of the sequences of n moves that start at the root,
\* skip no pruned move and pass after the root and before their end through
\* no position where the game is over
RECURSIVE WalkEnds(_, _, _)
WalkEnds(v, starting_fen, n) ==
    IF n = 0 THEN { BoardOf(starting_fen) }
    ELSE UNION { { LegalMoves(v.o, b)[k].to :
                     k \in { j \in DOMAIN LegalMoves(v.o, b) :
                               ~Pruned(LegalMoves(v.o, b)[j], v) } } :
                 b \in { c \in WalkEnds(v, starting_fen, n - 1) :
                           n = 1 \/ ~IsGameOver(v.o, c) } }

\* the lengths, up to D, of such sequences that end in a position
Distances(v, starting_fen, fen, D) ==
    { n \in 1 .. D : BoardOf(fen) \in WalkEnds(v, starting_fen, n) }

\* C29: shortest-distance depths: in the tree a completed run from an empty
\* store to depth D returns, the depth of every record is the length of the
\* shortest sequence of non-pruned moves from the root to its position that
\* passes through no game-over position, and every position at such a
\* distance in 1..D is recorded
C29_ShortestDepths ==
    FreshRunDone =>
        /\ \A i \in DOMAIN run.tree :
             LET ds == Distances(env, LastRun.root, run.tree[i].fen, LastRun.depth)
             IN  /\ ds # {}
                 /\ \A n \in ds : run.tree[i].depth <= n
                 /\ run.tree[i].depth \in ds
        /\ \A n \in 1 .. LastRun.depth :
             \A b \in WalkEnds(env, LastRun.root, n) : InTree(run.tree, Fen(b))

\* a run from an empty store to the largest depth has returned a tree that
\* holds a position which sequences of different lengths reach
C29_Witness ==
    /\ FreshRunDone
    /\ LastRun.depth = MaxDepth
    /\ \E i \in DOMAIN run.tree :
         Cardinality(Distances(env, LastRun.root, run.tree[i].fen, LastRun.depth)) >= 2

\* a call that was neither killed nor checkpointed by the clock leaves the
\* locals and the store that the whole call computes
WholeRunAgrees ==
    (pc = "done" /\ hist # << >> /\ LastRun.checkpoints = 0) =>
        LET out == WholeOutcome(Begin(env, LastRun.before, LastRun.root,
                                      LastRun.depth, LastRun.resume),
                                env, LastRun.before)
        IN  run = out.r /\ db = out.db

(***************************************************************************)
(* Properties of the retrograde analyzer.                                  *)
(***************************************************************************)
\* the tree was produced by the Tree Builder: no record carries 'children'
PlainTree == \A i \in DOMAIN an.tree : "children" \notin DOMAIN an.tree[i]

\* the position a record's move sequence reaches without its last move
ParentFen(data) ==
    Fen(Replay(env.o, BoardOf(an.starting_fen),
               SubSeq(data.moves, 1, Len(data.moves) - 1), 1))

\* the positions of the tree one legal move after the position of a record
KidsOf(data) == Range(ChildFens(env.o, an.tree, data.board, 1))

NonTerminal(data) == ~data.is_checkmate /\ ~data.is_stalemate

ParentMapBuilt == rpc \in {"mapped", "pop", "parents", "tallied", "done"}

DecrementOver == rpc \in {"tallied", "done"}

\* C4: parent index correctness: after build_parent_map on a Tree Builder
\* tree, every position of the tree that reaches a terminal-loss position C
\* in one ply (C's move sequence without its last move) is returned by
\* find_parent_positions(C)
C4_ParentIndexCorrect ==
    (ParentMapBuilt /\ PlainTree) =>
        \A i, j \in DOMAIN an.tree :
            (/\ an.tree[i].is_checkmate
             /\ Len(an.tree[i].moves) >= 1
             /\ an.tree[j].fen = ParentFen(an.tree[i]))
            => an.tree[j].fen \in
                 Range(FindParentPositions(an.parent_map, an.tree[i].fen))

\* C5: decrement by terminal-loss children: after the decrement pass on a
\* Tree Builder tree, a non-terminal position none of whose children became
\* a dead end has count = initial count - number of its terminal-loss
\* children in the tree
C5_DecrementByMates ==
    (DecrementOver /\ PlainTree) =>
        \A i \in DOMAIN an.tree :
            (NonTerminal(an.tree[i]) /\ KidsOf(an.tree[i]) \cap an.dead_ends = {})
            => an.move_counts[an.tree[i].fen]
                 = an.initial_move_counts[an.tree[i].fen]
                   - Cardinality({ c \in KidsOf(an.tree[i]) :
                                     Lookup(an.tree, c).is_checkmate })

\* C6: dead ends propagate further back: every position of the tree one ply
\* before a dead end has been decremented on its account, and a non-terminal
\* position all of whose continuations are checkmates or dead ends of the
\* tree is a dead end itself when the pass is over
C6_DeadEndsPropagate ==
    DecrementOver =>
        /\ \A i \in DOMAIN an.tree :
             \A q \in KidsOf(an.tree[i]) \cap an.dead_ends :
                << q, an.tree[i].fen >> \in DOMAIN obs.decs
        /\ \A i \in DOMAIN an.tree :
             (/\ NonTerminal(an.tree[i])
              /\ LegalMoves(env.o, an.tree[i].board) # << >>
              /\ \A k \in DOMAIN LegalMoves(env.o, an.tree[i].board) :
                   LET c == Fen(LegalMoves(env.o, an.tree[i].board)[k].to)
                   IN  /\ InTree(an.tree, c)
                       /\ Lookup(an.tree, c).is_checkmate \/ c \in an.dead_ends)
             => an.tree[i].fen \in an.dead_ends

C8_MonotonicCounts ==
    /\ [](\A fen \in DOMAIN an.move_counts :
            an.move_counts[fen] <= an.initial_move_counts[fen])
    /\ [][DOMAIN an.initial_move_counts # {}
            => an.initial_move_counts' = an.initial_move_counts]_vars

\* analyze has returned and a count was decremented below its initial value
C8_Witness ==
    /\ rpc = "done"
    /\ \E fen \in DOMAIN an.move_counts :
         an.move_counts[fen] < an.initial_move_counts[fen]

\* C9: propagation termination: decrement_from_checkmates terminates with an
\* empty worklist, and never runs the parent loop for more positions than the
\* tree holds
C9_Termination ==
    /\ [](Cardinality(dec.processed) <= Len(an.tree))
    /\ (rpc = "mapped") ~> (rpc = "tallied" /\ dec.to_process = << >>)

\* the pass is over, the worklist is empty, checkmates and a pushed dead end
\* have been popped
C9_Witness ==
    /\ rpc = "tallied"
    /\ dec.to_process = << >>
    /\ an.dead_ends # {}
    /\ an.dead_ends \subseteq dec.processed

C11_RatioSentinel ==
    rpc = "done" =>
        /\ DOMAIN res.dominic_ratio = DOMAIN an.depth_stats
        /\ DOMAIN res.refined_ratio = DOMAIN an.depth_stats
        /\ \A depth \in DOMAIN an.depth_stats :
             LET stats   == an.depth_stats[depth]
                 barrier == stats.checkmates + stats.dead_ends
                 dom     == res.dominic_ratio[depth].ratio
                 ref     == res.refined_ratio[depth].ratio
             IN  /\ (dom = Infinity) <=> (barrier = 0)
                 /\ (ref = Infinity) <=> (barrier = 0)
                 /\ barrier # 0 =>
                      /\ dom = [ kind |-> "number", num |-> stats.available_moves,
                                 den |-> barrier ]
                      /\ ref = [ kind |-> "number", num |-> stats.safe_moves,
                                 den |-> barrier ]

\* analyze has returned on a tree cut below its full depth; one depth has a
\* barrier and a numeric ratio, another has none and the sentinel
C11_Witness ==
    /\ rpc = "done"
    /\ \E d1, d2 \in DOMAIN res.dominic_ratio :
         /\ res.dominic_ratio[d1].ratio = Infinity
         /\ res.refined_ratio[d1].ratio = Infinity
         /\ res.dominic_ratio[d2].ratio.kind = "number"
         /\ res.refined_ratio[d2].ratio.kind = "number"
    /\ \E i \in DOMAIN an.tree :
         /\ ~IsGameOver(env.o, an.tree[i].board)
         /\ LegalMoves(env.o, an.tree[i].board) # << >>
         /\ \A k \in DOMAIN LegalMoves(env.o, an.tree[i].board) :
              ~InTree(an.tree, Fen(LegalMoves(env.o, an.tree[i].board)[k].to))

\* the identities of the tree whose is_checkmate flag is set
FlaggedCheckmates == { an.tree[i].fen : i \in { j \in DOMAIN an.tree : an.tree[j].is_checkmate } }

\* C30: Phase A classification: after find_checkmates and
\* initialize_move_counts, the checkmate list holds exactly the identities
\* whose is_checkmate flag is set, each once, and for every position of the
\* tree move_counts and initial_move_counts both hold the number of legal
\* moves of the position, which is 0 where a terminal flag is set
C30_PhaseA ==
    rpc = "counted" =>
        /\ Range(an.checkmates) = FlaggedCheckmates
        /\ Len(an.checkmates) = Cardinality(FlaggedCheckmates)
        /\ \A i \in DOMAIN an.tree :
             LET p == an.tree[i].fen
             IN  /\ p \in DOMAIN an.move_counts
                 /\ p \in DOMAIN an.initial_move_counts
                 /\ an.move_counts[p] = Len(LegalMoves(env.o, BoardOf(p)))
                 /\ an.initial_move_counts[p] = an.move_counts[p]
                 /\ (an.tree[i].is_checkmate \/ an.tree[i].is_stalemate)
                        => an.move_counts[p] = 0

\* Phase A has run a second time, after the propagation of an earlier pass
\* lowered a count, on a tree with a checkmate, a stalemate and a position
\* that has legal moves
C30_Witness ==
    /\ rpc = "counted"
    /\ obs.passes >= 2
    /\ \E i \in DOMAIN an.tree : an.tree[i].is_checkmate
    /\ \E i \in DOMAIN an.tree : an.tree[i].is_stalemate
    /\ \E i \in DOMAIN an.tree : an.move_counts[an.tree[i].fen] >= 2

\* the identities of the tree recorded at a depth
FensAt(depth) == { an.tree[i].fen : i \in { j \in DOMAIN an.tree : an.tree[j].depth = depth } }

\* the sum of a table of counts over a set of identities
RECURSIVE SumOver(_, _)
SumOver(counts, fens) ==
    IF fens = {} THEN 0
    ELSE LET fen == CHOOSE f \in fens : TRUE
         IN  counts[fen] + SumOver(counts, fens \ {fen})

FirstPassDone == rpc = "done" /\ obs.passes = 1

\* C31: per-depth statistics: after one call of analyze on a fresh analyzer
\* the statistics have an entry for exactly the depths of the tree; at every
\* depth positions, checkmates and dead_ends count the positions, the
\* checkmates and the dead ends recorded there, initial_moves and safe_moves
\* are the sums of the initial and the current counts there, safe_moves is at
\* most initial_moves, and both ratio tables divide available_moves resp.
\* safe_moves by checkmates + dead_ends
C31_DepthStatistics ==
    FirstPassDone =>
        /\ DOMAIN an.depth_stats = { an.tree[i].depth : i \in DOMAIN an.tree }
        /\ \A d \in DOMAIN an.depth_stats :
             LET stats   == an.depth_stats[d]
                 barrier == stats.checkmates + stats.dead_ends
             IN  /\ stats.positions = Cardinality(FensAt(d))
                 /\ stats.checkmates = Cardinality(FensAt(d) \cap FlaggedCheckmates)
                 /\ stats.dead_ends = Cardinality(FensAt(d) \cap an.dead_ends)
                 /\ stats.initial_moves = SumOver(an.initial_move_counts, FensAt(d))
                 /\ stats.available_moves = stats.initial_moves
                 /\ stats.safe_moves = SumOver(an.move_counts, FensAt(d))
                 /\ stats.safe_moves <= stats.initial_moves
                 /\ res.dominic_ratio[d].barrier_size = barrier
                 /\ res.refined_ratio[d].barrier_size = barrier
                 /\ res.dominic_ratio[d].moves = stats.available_moves
                 /\ res.refined_ratio[d].moves = stats.safe_moves
                 /\ barrier > 0 =>
                      /\ res.dominic_ratio[d].ratio = Quotient(stats.available_moves, barrier)
                      /\ res.refined_ratio[d].ratio = Quotient(stats.safe_moves, barrier)

\* the first call has returned on a tree with several depths; at one depth
\* there are a checkmate and a dead end and the safe moves are fewer than
\* the initial moves
C31_Witness ==
    /\ FirstPassDone
    /\ Cardinality(DOMAIN an.depth_stats) >= 2
    /\ an.dead_ends # {}
    /\ \E d \in DOMAIN an.depth_stats :
         /\ an.depth_stats[d].checkmates >= 1
         /\ an.depth_stats[d].positions >= 2
    /\ \E d \in DOMAIN an.depth_stats :
         /\ an.depth_stats[d].dead_ends >= 1
         /\ an.depth_stats[d].safe_moves < an.depth_stats[d].initial_moves

\* the step in which the second call of analyze on one analyzer returns
SecondReturn == rpc = "tallied" /\ rpc' = "done" /\ obs.passes = 2

\* C32: repeated analysis: the second call of analyze on the same analyzer
\* returns the depth statistics, the dead-end set and the two ratio tables
\* that the first call returned
C32_RepeatedAnalysis ==
    [][SecondReturn =>
          /\ res'.depth_statistics = res.depth_statistics
          /\ res'.dead_ends = res.dead_ends
          /\ res'.dominic_ratio = res.dominic_ratio
          /\ res'.refined_ratio = res.refined_ratio]_vars

\* C33: no terminal losses: when the tree holds no checkmate, analyze leaves
\* every current count at its initial count and returns an empty dead-end
\* set, the propagation depth None and, at every depth of both ratio tables,
\* the sentinel
C33_NoTerminalLosses ==
    (rpc = "done" /\ FlaggedCheckmates = {}) =>
        /\ \A i \in DOMAIN an.tree :
             an.move_counts[an.tree[i].fen] = an.initial_move_counts[an.tree[i].fen]
        /\ res.dead_ends = {}
        /\ res.propagation_depth = None
        /\ \A d \in { an.tree[i].depth : i \in DOMAIN an.tree } :
             /\ d \in DOMAIN res.dominic_ratio /\ res.dominic_ratio[d].ratio = Infinity
             /\ d \in DOMAIN res.refined_ratio /\ res.refined_ratio[d].ratio = Infinity

\* analyze has returned on a tree with 'children' lists that holds several
\* depths, a stalemate and no checkmate
C33_Witness ==
    /\ rpc = "done"
    /\ FlaggedCheckmates = {}
    /\ ~PlainTree
    /\ Cardinality({ an.tree[i].depth : i \in DOMAIN an.tree }) >= 2
    /\ \E i \in DOMAIN an.tree : an.tree[i].is_stalemate

\* the depths at which the returned dead ends are recorded
DeadEndDepths == { Lookup(an.tree, fen).depth : fen \in res.dead_ends }

\* C34: propagation depth: the propagation depth analyze returns is the least
\* recorded depth of the positions of the returned dead-end set, and it is
\* None exactly when that set is empty
C34_PropagationDepth ==
    rpc = "done" =>
        /\ res.propagation_depth.none <=> res.dead_ends = {}
        /\ res.dead_ends \subseteq Keys(an.tree)
        /\ res.dead_ends # {} =>
             /\ res.propagation_depth.int \in DeadEndDepths
             /\ \A d \in DeadEndDepths : res.propagation_depth.int <= d

\* analyze has returned dead ends at two depths, and the tree holds a
\* position above the shallowest of them
C34_Witness ==
    /\ rpc = "done"
    /\ Cardinality(DeadEndDepths) >= 2
    /\ \E i \in DOMAIN an.tree : an.tree[i].depth < res.propagation_depth.int

\* C35: non-negative counts: in every state of decrement_from_checkmates,
\* and after it, every current move count is at least 0
C35_NonNegativeCounts ==
    rpc \in {"pop", "parents", "tallied", "done"} =>
        \A fen \in DOMAIN an.move_counts : an.move_counts[fen] >= 0

\* during the pass a position with several legal moves, all of them to
\* checkmates of the tree, has been decremented to 0 once per checkmate
C35_Witness ==
    /\ rpc \in {"pop", "parents"}
    /\ \E fen \in DOMAIN an.move_counts :
         /\ an.initial_move_counts[fen] >= 2
         /\ an.move_counts[fen] = 0
         /\ Cardinality({ edge \in DOMAIN obs.decs : edge[2] = fen }) >= 2

\* the marker of the most recent save_tree call that returned since the last
\* clear, or none
NewestMarker == IF st.last = "save" THEN st.marker ELSE NoProgress

\* C36: most recent marker wins: after any sequence of save_tree and clear
\* calls, failed saves included, load_progress and the marker load_tree
\* returns are equal and are the marker of the most recent successful
\* save_tree since the last clear, absent if there was none
C36_NewestMarker ==
    st.read =>
        /\ st.loaded.progress = st.progress
        /\ st.progress = NewestMarker
        /\ st.loaded.none <=> (st.last # "save")

\* the store was read after two saves with different markers, so that the
\* progress table holds two rows
C36_Witness ==
    /\ st.read
    /\ st.last = "save"
    /\ Len(db.progress) = 2
    /\ db.progress[1] # db.progress[2]
    /\ st.progress = db.progress[2]

\* the step in which a save_tree call commits and returns
SaveReturns == st.at = "commit" /\ st'.at = "idle" /\ ~st'.failed

RowKeys(d) == { d.positions[i].fen : i \in DOMAIN d.positions }

\* C37: idempotent upsert: a save_tree call that returns leaves one row per
\* identity; the stored rows are the rows of the saved tree together with
\* the rows stored before for the identities the tree does not hold, so no
\* stored identity is removed and the latest record of an identity wins;
\* saving the tree of the preceding save again leaves the rows as they were
C37_IdempotentUpsert ==
    [][SaveReturns =>
          /\ \A i, j \in DOMAIN db'.positions :
               db'.positions[i].fen = db'.positions[j].fen => i = j
          /\ RowKeys(db) \subseteq RowKeys(db')
          /\ Range(db'.positions) =
               { RowOf(st.pending.tree[i]) : i \in DOMAIN st.pending.tree }
               \cup { r \in Range(db.positions) : r.fen \notin Keys(st.pending.tree) }
          /\ (st.last = "save" /\ st.pending.tree = st.tree) =>
               Range(db'.positions) = Range(db.positions)]_vars

\* a second save has returned on a store that held a position the saved tree
\* does not hold and a position the saved tree records differently
C37_Witness ==
    /\ st.at = "idle" /\ st.last = "save" /\ ~st.failed
    /\ st.saves = 2
    /\ db = SavedAsOneUnit
    /\ \E r \in Range(st.pending.before.positions) :
         r.fen \notin Keys(st.pending.tree) /\ r \in Range(db.positions)
    /\ \E r \in Range(st.pending.before.positions) :
         r.fen \in Keys(st.pending.tree) /\ r \notin Range(db.positions)

\* C38: builder equivalence: for every root and depth D,
\* generate_move_tree_simple(D) returns the identities, depths, move
\* sequences and flags that generate_move_tree(D) with limit_promotions and
\* without filter returns on an empty store, and counts the same number of
\* analyzed moves
C38_BuilderEquivalence ==
    simple.at = "done" =>
        /\ FullSet(simple.tree)
             = FullSet(DirectRun(env, simple.starting_fen, simple.max_depth))
        /\ Len(simple.tree)
             = Len(DirectRun(env, simple.starting_fen, simple.max_depth))
        /\ simple.positions_analyzed
             = DirectCount(env, simple.starting_fen, simple.max_depth)

\* the simple builder has returned from the largest depth on a root with a
\* skipped promotion, after a move that reached a recorded position
C38_Witness ==
    /\ simple.at = "done"
    /\ simple.max_depth = MaxDepth
    /\ \E k \in DOMAIN RootMoves : SkippedPromotion(RootMoves[k])
    /\ \E i \in DOMAIN simple.tree : simple.tree[i].depth >= 2
    /\ simple.positions_analyzed > Len(simple.tree)

\* the step is one of the worker thread
WorkerStep == worker.at \in {"run", "call", "except"} /\ worker'.at # worker.at

====
